---- MODULE Spec2Model ----
(***************************************************************************)
(* Model of OpenRouterRuntime (packages/shared/src/config/models.ts): the  *)
(* conversation orchestrator (sendMessage), the HTTP streaming transport   *)
(* (callOpenRouterStream / flushEvent) and the tool-call aggregator.       *)
(*                                                                         *)
(* The specifications of the module:                                       *)
(*   SpecAgg    - the tool-call aggregator fed one fragment at a time      *)
(*   SpecStream - the SSE read loop of callOpenRouterStream, line by line  *)
(*   Spec       - sendMessage invocations on one runtime instance          *)
(*   SpecTools  - the tool layer: getToolDefinitions, executeToolCall,     *)
(*                the remote-tool client cache, close and dispose          *)
(*   SpecCodex  - one call of the subprocess adapter, event by event       *)
(*   SpecChat   - chat() calls with forceAbort / stop in between           *)
(*   SpecSetModel - sendMessage with setModel calls in between             *)
(***************************************************************************)
EXTENDS Integers, Sequences, FiniteSets, TLC

VARIABLES
    \* ---- aggregator under test (SpecAgg)
    toolCallsByIndex,   \* Map<number, OpenRouterToolCall> of flushEvent
    fragLog,            \* the fragments received so far, in arrival order
    aggPc,              \* "merging" | "finalized" | "nonstream"
    aggFinal,           \* the finalized tool-call list
    nonStreamInput,     \* message.tool_calls of the non-stream JSON fallback
    \* ---- streaming transport under test (SpecStream)
    stream,             \* locals of callOpenRouterStream's read loop
    linesRead,          \* number of lines delivered by the network so far
    \* ---- one runtime instance and its sendMessage invocations (Spec)
    conversationHistory, \* this.conversationHistory
    model,              \* this.model
    toolMap,            \* this.toolMap: synthesized name -> remote tool
    apiToolMap,         \* this.apiToolMap: synthesized name -> in-process tool
    inv,                \* per invocation: position, locals, emitted events
    credential,         \* what the credential manager / environment holds
    codexAuthFile,      \* whether ~/.codex/auth.json exists
    live,               \* the invocations the caller makes in this run
    toolBudget,         \* tool-calling responses the backend still gives
    served,             \* number of requests the backend has answered
    \* ---- the tool layer of the runtime (SpecTools)
    servers,            \* this.mcpServers, this.apiServers, this.intendedSourceSlugs
    mcpClients,         \* this.mcpClients: source slug -> client
    clients,            \* every client constructed so far, in order of construction
    listing,            \* the getToolDefinitions call in progress, or the last one
    exec,               \* the last executeToolCall and what it invoked
    closer,             \* the close() call in progress
    synthesized,        \* every result of toOpenAiToolName so far
    ops,                \* how many calls the caller has made, how many disposals ended
    \* ---- one call of the subprocess adapter and its child process (SpecCodex)
    codex,              \* the child process, its pipes and the locals of the adapter
    \* ---- the chat() wrapper and its callers (SpecChat)
    currentAbortController, \* this.currentAbortController: 0 for null, or the
                        \* number of the chat() call that created the controller
    chat,               \* per chat() call: position, message, events of its own
    forceAborts         \* how many times forceAbort / stop was called

aggVars == <<toolCallsByIndex, fragLog, aggPc, aggFinal, nonStreamInput>>
streamVars == <<stream, linesRead>>
envVars == <<credential, codexAuthFile, live>>
toolVars == <<servers, mcpClients, clients, listing, exec, closer, synthesized, ops>>
procVars == <<codex>>
chatVars == <<currentAbortController, chat, forceAborts>>
runVars == <<conversationHistory, model, toolMap, apiToolMap, inv, toolBudget, served, envVars,
             toolVars, procVars, chatVars>>
vars == <<aggVars, streamVars, runVars>>

-----------------------------------------------------------------------------
(* JavaScript values *)

\* the value of an absent optional field
undefined == "undefined"

\* JavaScript truthiness of an optional string: neither undefined nor ''
Truthy(s) == s # undefined /\ s # ""

\* a ?? b
Coalesce(a, b) == IF a = undefined THEN b ELSE a

\* `toolcall_${index}`
DefaultToolCallId(index) == "toolcall_" \o ToString(index)

Min(S) == CHOOSE x \in S : \A y \in S : x <= y

\* s.startsWith(p), strings being tuples of characters
StartsWith(s, p) == Len(s) >= Len(p) /\ SubSeq(s, 1, Len(p)) = p

-----------------------------------------------------------------------------
(* AgentEvent: one record shape for all event types; a field an event type *)
(* does not carry is undefined (FALSE for the two flags)                   *)

Event(type, text, toolUseId, toolName, isError, isIntermediate, turnId) ==
    [type |-> type, text |-> text, toolUseId |-> toolUseId, toolName |-> toolName,
     isError |-> isError, isIntermediate |-> isIntermediate, turnId |-> turnId]

TextDelta(text, turnId) == Event("text_delta", text, undefined, undefined, FALSE, FALSE, turnId)
TextComplete(text, isIntermediate, turnId) ==
    Event("text_complete", text, undefined, undefined, FALSE, isIntermediate, turnId)
ToolStart(id, name, turnId) == Event("tool_start", undefined, id, name, FALSE, FALSE, turnId)
ToolResult(id, result, isError, turnId) ==
    Event("tool_result", result, id, undefined, isError, FALSE, turnId)
CompleteEvent == Event("complete", undefined, undefined, undefined, FALSE, FALSE, undefined)

ErrorEvent(message) == Event("error", message, undefined, undefined, FALSE, FALSE, undefined)

-----------------------------------------------------------------------------
(* Tool-call aggregator: flushEvent, models.ts 585-599 *)

\* the entry a first fragment for an index starts from (models.ts 587-591)
NewToolCall(tc) ==
    [id |-> Coalesce(tc.id, DefaultToolCallId(tc.index)), name |-> "", arguments |-> ""]

\* one iteration of `for (const tc of delta.tool_calls)` (models.ts 586-598)
ApplyFragment(m, tc) ==
    LET existing == IF tc.index \in DOMAIN m THEN m[tc.index] ELSE NewToolCall(tc)
        withId   == IF Truthy(tc.id) THEN [existing EXCEPT !.id = tc.id] ELSE existing
        withName == IF Truthy(tc.name) THEN [withId EXCEPT !.name = tc.name] ELSE withId
        withArgs == IF Truthy(tc.arguments)
                    THEN [withName EXCEPT !.arguments = @ \o tc.arguments]
                    ELSE withName
    IN  [j \in DOMAIN m \cup {tc.index} |-> IF j = tc.index THEN withArgs ELSE m[j]]

RECURSIVE ApplyFragments(_, _)
\* the whole loop over delta.tool_calls
ApplyFragments(m, tcs) ==
    IF tcs = <<>> THEN m ELSE ApplyFragments(ApplyFragment(m, Head(tcs)), Tail(tcs))

RECURSIVE SortedIndexes(_)
\* Array.from(map.entries()).sort((a, b) => a[0] - b[0]) : the keys, ascending
SortedIndexes(S) ==
    IF S = {} THEN <<>> ELSE <<Min(S)>> \o SortedIndexes(S \ {Min(S)})

\* mutant: the filter keeps every entry
HasNameAlways(tc) == TRUE

\* .filter(tc => tc.function.name) (models.ts 539, 642)
HasName(tc) == tc.name # ""

\* the toolCalls of the aggregate returned by the streaming path (models.ts 642)
FinalizeToolCalls(m) ==
    LET idx == SortedIndexes(DOMAIN m)
        all == [k \in 1..Len(idx) |-> m[idx[k]]]
    IN  SelectSeq(all, HasName)

\* the toolCalls of the non-stream JSON fallback (models.ts 530-539);
\* the array position k (1-based here) is the 0-based index k-1 of the code
NonStreamToolCalls(tcs) ==
    LET mapped == [k \in 1..Len(tcs) |->
                     [id        |-> Coalesce(tcs[k].id, DefaultToolCallId(k - 1)),
                      name      |-> Coalesce(tcs[k].name, ""),
                      arguments |-> Coalesce(tcs[k].arguments, "")]]
    IN  SelectSeq(mapped, HasName)

-----------------------------------------------------------------------------
(* SpecAgg: the aggregator driven by arbitrary fragments *)

\* bound: number of fragments fed to one aggregator
MaxFrags == 3

\* bound: length of message.tool_calls in a non-stream response
MaxNonStream == 2

\* delta.tool_calls[].index values the backend uses
Indexes == {0, 1, 2}

\* the fragment shapes (id, function.name, function.arguments); every optional
\* field occurs absent, empty and with two different values, and one id has the
\* form of a default id
FragmentShapes ==
    { [id |-> "call1",   name |-> "search",  arguments |-> undefined],
      [id |-> "call2",   name |-> "fetch",   arguments |-> undefined],
      [id |-> "",        name |-> "search",  arguments |-> ""],
      [id |-> undefined, name |-> undefined, arguments |-> "a"],
      [id |-> undefined, name |-> undefined, arguments |-> "b"],
      [id |-> undefined, name |-> "fetch",   arguments |-> undefined],
      [id |-> "call2",   name |-> undefined, arguments |-> "a"],
      [id |-> "toolcall_1", name |-> "fetch", arguments |-> undefined],
      [id |-> "",        name |-> "",        arguments |-> ""] }

Fragments ==
    { [index |-> i, id |-> f.id, name |-> f.name, arguments |-> f.arguments] :
        i \in Indexes, f \in FragmentShapes }

RECURSIVE SeqsUpTo(_, _)
\* all sequences over S of length at most n
SeqsUpTo(S, n) ==
    IF n = 0 THEN {<<>>}
    ELSE LET shorter == SeqsUpTo(S, n - 1)
         IN  shorter \cup { Append(q, x) : q \in shorter, x \in S }

NonStreamLists == SeqsUpTo(FragmentShapes, MaxNonStream)

\* flushEvent meets one more entry of delta.tool_calls
AggFragment ==
    /\ aggPc = "merging"
    /\ Len(fragLog) < MaxFrags
    /\ \E tc \in Fragments :
         /\ toolCallsByIndex' = ApplyFragment(toolCallsByIndex, tc)
         /\ fragLog' = Append(fragLog, tc)
    /\ UNCHANGED <<aggPc, aggFinal, nonStreamInput, streamVars, runVars>>

\* end of stream: the aggregate's toolCalls are projected from the map
AggFinalize ==
    /\ aggPc = "merging"
    /\ aggFinal' = FinalizeToolCalls(toolCallsByIndex)
    /\ aggPc' = "finalized"
    /\ UNCHANGED <<toolCallsByIndex, fragLog, nonStreamInput, streamVars, runVars>>

\* the response was not an event stream: message.tool_calls is mapped and filtered
AggNonStream ==
    /\ aggPc = "merging"
    /\ fragLog = <<>>
    /\ \E tcs \in NonStreamLists :
         /\ nonStreamInput' = tcs
         /\ aggFinal' = NonStreamToolCalls(tcs)
    /\ aggPc' = "nonstream"
    /\ UNCHANGED <<toolCallsByIndex, fragLog, streamVars, runVars>>

AggNext == AggFragment \/ AggFinalize \/ AggNonStream

-----------------------------------------------------------------------------
(* Streaming transport: callOpenRouterStream, models.ts 544-645 *)

\* a parsed OpenRouterStreamChunk; choices[0].delta is present iff hasDelta
NoChunk ==
    [id |-> undefined, error |-> FALSE, hasDelta |-> FALSE,
     content |-> undefined, tool_calls |-> <<>>]

Chunk(id, content, tcs) ==
    [id |-> id, error |-> FALSE, hasDelta |-> TRUE, content |-> content, tool_calls |-> tcs]

Frag(i, id, name, arguments) ==
    [index |-> i, id |-> id, name |-> name, arguments |-> arguments]

\* the text after "data:" of one line: JSON of a chunk, the [DONE] sentinel,
\* nothing, or text that is not JSON
JsonPayload(c) == [t |-> "json", chunk |-> c]
DonePayload == [t |-> "done", chunk |-> NoChunk]
EmptyPayload == [t |-> "empty", chunk |-> NoChunk]
BadPayload == [t |-> "bad", chunk |-> NoChunk]

\* one line of the response body, without its newline
BlankLine == [kind |-> "blank", payload |-> EmptyPayload]
CommentLine == [kind |-> "comment", payload |-> EmptyPayload]
DataLine(p) == [kind |-> "data", payload |-> p]
NoLine == [kind |-> "none", payload |-> EmptyPayload]

\* the locals of callOpenRouterStream once the reader is acquired (models.ts 544-551)
StreamStart ==
    [buffer |-> NoLine, eventDataLines |-> <<>>, content |-> "", turnId |-> undefined,
     toolCallsByIndex |-> <<>>, events |-> <<>>, reader |-> "open",
     status |-> "reading", result |-> [content |-> "", toolCalls |-> <<>>, turnId |-> undefined],
     error |-> "",
     \* how many events had been emitted when an SSE event was last dropped
     \* without effect, -1 if none was
     droppedAt |-> -1]

IsNotEmptyPayload(p) == p.t # "empty"

\* eventDataLines.join('\n').trim() read as one payload: blank lines around a
\* payload are trimmed away, two payloads joined by a newline are not JSON
JoinedData(dataLines) ==
    LET ne == SelectSeq(dataLines, IsNotEmptyPayload)
    IN  IF Len(ne) = 0 THEN EmptyPayload
        ELSE IF Len(ne) = 1 THEN ne[1]
        ELSE BadPayload

\* typeof delta.content === 'string' && delta.content.length > 0, the guard of
\* `content += delta.content` (models.ts 581)
AccumulatesContent(chunk) == Truthy(chunk.content)

\* mutant: a chunk that carries tool calls emits no text_delta
EmitsTextDeltaUnlessToolCalls(chunk) == Truthy(chunk.content) /\ chunk.tool_calls = <<>>

\* the same guard before events.push({type: 'text_delta', ...}) (models.ts 602)
EmitsTextDelta(chunk) == Truthy(chunk.content)

\* mutant: a payload that is not JSON ends the transport with an error
flushEventParseThrows(st) ==
    IF Len(st.eventDataLines) = 0 THEN st
    ELSE
    LET data    == JoinedData(st.eventDataLines)
        cleared == [st EXCEPT !.eventDataLines = <<>>]
        chunk   == data.chunk
        turnId  == IF ~Truthy(st.turnId) /\ Truthy(chunk.id) THEN chunk.id ELSE st.turnId
        withId  == [cleared EXCEPT !.turnId = turnId]
    IN  IF data.t = "bad"
        THEN [cleared EXCEPT !.status = "thrown", !.error = "OpenRouter stream parse error"]
        ELSE IF data.t # "json" THEN [cleared EXCEPT !.droppedAt = Len(st.events)]
        ELSE IF chunk.error
             THEN [cleared EXCEPT !.status = "thrown", !.error = "OpenRouter stream error"]
        ELSE IF ~chunk.hasDelta THEN withId
        ELSE [withId EXCEPT
                !.content = IF AccumulatesContent(chunk) THEN @ \o chunk.content ELSE @,
                !.toolCallsByIndex = ApplyFragments(@, chunk.tool_calls),
                !.events = IF EmitsTextDelta(chunk)
                           THEN Append(@, TextDelta(chunk.content, turnId))
                           ELSE @]

\* flushEvent (models.ts 553-607): the stream locals after the call; the events
\* it returns are yielded at once by its callers, a throw ends the transport
flushEvent(st) ==
    IF Len(st.eventDataLines) = 0 THEN st
    ELSE
    LET data    == JoinedData(st.eventDataLines)
        cleared == [st EXCEPT !.eventDataLines = <<>>]
        chunk   == data.chunk
        turnId  == IF ~Truthy(st.turnId) /\ Truthy(chunk.id) THEN chunk.id ELSE st.turnId
        withId  == [cleared EXCEPT !.turnId = turnId]
    IN  IF data.t # "json" THEN [cleared EXCEPT !.droppedAt = Len(st.events)]
        ELSE IF chunk.error
             THEN [cleared EXCEPT !.status = "thrown", !.error = "OpenRouter stream error"]
        ELSE IF ~chunk.hasDelta THEN withId
        ELSE [withId EXCEPT
                !.content = IF AccumulatesContent(chunk) THEN @ \o chunk.content ELSE @,
                !.toolCallsByIndex = ApplyFragments(@, chunk.tool_calls),
                !.events = IF EmitsTextDelta(chunk)
                           THEN Append(@, TextDelta(chunk.content, turnId))
                           ELSE @]

\* mutant: the read loop has no finally
ReleaseReaderNever(st) == st

\* the `finally { await reader.cancel() }` of the read loop (models.ts 630-636)
ReleaseReader(st) == [st EXCEPT !.reader = "cancelled"]

\* the body of the inner while loop for one complete line (models.ts 618-627)
ProcessLine(st, line) ==
    IF line.kind = "blank"
    THEN LET flushed == flushEvent(st)
         IN  IF flushed.status = "thrown" THEN ReleaseReader(flushed) ELSE flushed
    ELSE IF line.kind = "data"
         THEN [st EXCEPT !.eventDataLines = Append(@, line.payload)]
    ELSE st

\* reader.read() reports done: the loop is left, the reader released, what is
\* left in eventDataLines flushed and the aggregate returned (models.ts 612, 630-644)
EndOfStream(st) ==
    LET flushed == flushEvent(ReleaseReader(st))
    IN  IF flushed.status = "thrown" THEN flushed
        ELSE [flushed EXCEPT
                !.status = "returned",
                !.result = [content   |-> flushed.content,
                            toolCalls |-> FinalizeToolCalls(flushed.toolCallsByIndex),
                            turnId    |-> flushed.turnId]]

RECURSIVE ProcessLines(_, _)
\* the read loop over a whole body of complete lines
ProcessLines(st, lines) ==
    IF lines = <<>> \/ st.status # "reading" THEN st
    ELSE ProcessLines(ProcessLine(st, Head(lines)), Tail(lines))

\* the streaming path of callOpenRouterStream over one response body
RunStream(lines) ==
    LET st == ProcessLines(StreamStart, lines)
    IN  IF st.status = "reading" THEN EndOfStream(st) ELSE st

-----------------------------------------------------------------------------
(* SpecStream: the read loop driven by arbitrary lines *)

\* bound: number of lines one response body delivers
MaxLines == 4

\* the chunks a backend sends: text with and without a chunk id, empty text,
\* tool-call fragments with and without text, a chunk without delta, an error
StreamChunks ==
    { Chunk("gen-1", "He", <<>>),
      Chunk(undefined, "y", <<>>),
      Chunk("gen-2", "", <<Frag(0, "call1", "search", undefined)>>),
      Chunk(undefined, "!", <<Frag(0, undefined, undefined, "a")>>),
      Chunk(undefined, undefined, <<Frag(1, undefined, undefined, "b")>>),
      [NoChunk EXCEPT !.id = "gen-2"],
      [NoChunk EXCEPT !.error = TRUE] }

StreamLines ==
    { DataLine(JsonPayload(c)) : c \in StreamChunks }
        \cup { DataLine(DonePayload), DataLine(EmptyPayload), DataLine(BadPayload),
               BlankLine, CommentLine }

\* reader.read() delivers text up to and including a newline: one more line
StreamLine ==
    /\ stream.status = "reading"
    /\ stream.buffer = NoLine
    /\ linesRead < MaxLines
    /\ \E line \in StreamLines : stream' = ProcessLine(stream, line)
    /\ linesRead' = linesRead + 1
    /\ UNCHANGED <<aggVars, runVars>>

\* reader.read() delivers the start of a line, its newline still to come
StreamPartial ==
    /\ stream.status = "reading"
    /\ stream.buffer = NoLine
    /\ linesRead < MaxLines
    /\ \E line \in StreamLines \ {BlankLine} : stream' = [stream EXCEPT !.buffer = line]
    /\ linesRead' = linesRead + 1
    /\ UNCHANGED <<aggVars, runVars>>

\* reader.read() delivers the newline that completes the buffered line
StreamNewline ==
    /\ stream.status = "reading"
    /\ stream.buffer # NoLine
    /\ stream' = ProcessLine([stream EXCEPT !.buffer = NoLine], stream.buffer)
    /\ UNCHANGED <<linesRead, aggVars, runVars>>

\* reader.read() reports the end of the body
StreamEnd ==
    /\ stream.status = "reading"
    /\ stream' = EndOfStream(stream)
    /\ UNCHANGED <<linesRead, aggVars, runVars>>

\* reader.read() rejects, the signal having fired: the rejection leaves the
\* loop through the finally and the generator (models.ts 611, 630-636)
StreamReadFails ==
    /\ stream.status = "reading"
    /\ stream' = ReleaseReader([stream EXCEPT !.status = "thrown", !.error = "AbortError"])
    /\ UNCHANGED <<linesRead, aggVars, runVars>>

\* the consumer calls return() on the generator, which is suspended at the
\* yield of an event inside the loop: the finally runs and the generator ends
\* without aggregate (models.ts 622, 630-636)
StreamReturn ==
    /\ stream.status = "reading"
    /\ stream.events # <<>>
    /\ stream' = ReleaseReader([stream EXCEPT !.status = "abandoned"])
    /\ UNCHANGED <<linesRead, aggVars, runVars>>

StreamNext ==
    \/ StreamLine
    \/ StreamPartial
    \/ StreamNewline
    \/ StreamEnd
    \/ StreamReadFails
    \/ StreamReturn

-----------------------------------------------------------------------------
(* The runtime: backend selection, messages, tool tables *)

\* model identifiers, as tuples of characters
RouterModel == <<"o","p","e","n","a","i","/","g","p","t","-","4","o">>
CodexModel == <<"g","p","t","-","5">>
Models == {RouterModel, CodexModel}

\* isOpenAIModel (models.ts 276-279)
isOpenAIModel(m) ==
    StartsWith(m, <<"g","p","t","-">>) /\ ~StartsWith(m, <<"o","p","e","n","a","i","/">>)

\* getApiEndpoint (models.ts 284-288)
getApiEndpoint(m) == IF isOpenAIModel(m) THEN "api.openai.com" ELSE "openrouter.ai"

\* OpenRouterMessage; tool_calls is present iff has_tool_calls
Message(role, content, tool_call_id, has_tool_calls, tool_calls) ==
    [role |-> role, content |-> content, tool_call_id |-> tool_call_id,
     has_tool_calls |-> has_tool_calls, tool_calls |-> tool_calls]

UserMessage(content) == Message("user", content, undefined, FALSE, <<>>)
SystemMessage(content) == Message("system", content, undefined, FALSE, <<>>)
ToolMessage(id, content) == Message("tool", content, id, FALSE, <<>>)

\* the assistant message pushed after a model call (models.ts 390-394)
AssistantMessage(content, toolCalls) ==
    Message("assistant", content, undefined, Len(toolCalls) > 0, toolCalls)

\* the skills of the workspace (loadWorkspaceSkills)
WorkspaceSkills == {"brief"}

\* what the caller sends in each invocation: the text and the @slug mentions
\* extractAtMentionSlugs finds in it
UserInput(i) ==
    IF i = 1 THEN [text |-> "use @brief", mentions |-> {"brief"}]
    ELSE [text |-> "hello", mentions |-> {}]

\* buildSkillSystemMessagesFromMentions (models.ts 787-808)
buildSkillSystemMessagesFromMentions(input) ==
    IF input.mentions \cap WorkspaceSkills = {} THEN <<>>
    ELSE <<SystemMessage("The user referenced the following skill(s)")>>

\* source slugs: a remote source, an in-process one, one configured as both, one
\* with a character outside [a-zA-Z0-9_-], a long one, an in-process source
\* without instance, one whose setToolRequestHandlers throws, one not configured
McpSlug == <<"m","c","p">>
ApiSlug == <<"a","p","i">>
BothSlug == <<"b","o","t","h">>
DottedSlug == <<"m","y",".","s","r","c">>
LongSlug == [k \in 1..40 |-> "s"]
BareSlug == <<"b","a","r","e">>
BrokenSlug == <<"b","r","k">>
GoneSlug == <<"g","o","n","e">>

\* tool names
ListTool == <<"l","i","s","t">>
GetTool == <<"g","e","t">>
OldTool == <<"o","l","d">>
SpacedTool == <<"l","i","s","t"," ","a","l","l">>
LongTool == [k \in 1..30 |-> IF k \in {5, 28} THEN "#" ELSE "t"]

\* the sources set by setSourceServers: one remote (MCP) and one in-process (API)
mcpServers == {McpSlug}
apiServers == {ApiSlug}

\* client.listTools() of a remote source, _registeredTools of an in-process one
ListedTools(slug) ==
    IF slug = McpSlug THEN {ListTool}
    ELSE IF slug = BothSlug THEN {GetTool}
    ELSE IF slug = DottedSlug THEN {SpacedTool}
    ELSE IF slug = LongSlug THEN {LongTool}
    ELSE {}
RegisteredTools(slug) ==
    IF slug = ApiSlug THEN {GetTool, OldTool}
    ELSE IF slug \in {BothSlug, BrokenSlug} THEN {GetTool}
    ELSE {}

\* toolDef.enabled !== false (models.ts 942)
ToolEnabled(slug, t) == ~(slug = ApiSlug /\ t = OldTool)

\* serverConfig.instance is set (models.ts 931-932, 852-853)
HasInstance(slug) == slug \in {ApiSlug, BothSlug, BrokenSlug}

\* serverInstance.setToolRequestHandlers() throws (models.ts 935-937)
SetHandlersThrows(slug) == slug = BrokenSlug

\* the characters of [a-zA-Z0-9_-] (models.ts 969)
NameChars ==
    {"a","b","c","d","e","f","g","h","i","j","k","l","m",
     "n","o","p","q","r","s","t","u","v","w","x","y","z",
     "A","B","C","D","E","F","G","H","I","J","K","L","M",
     "N","O","P","Q","R","S","T","U","V","W","X","Y","Z",
     "0","1","2","3","4","5","6","7","8","9","_","-"}

RECURSIVE ReplaceDisallowed(_)
\* raw.replace(/[^a-zA-Z0-9_-]/g, '_'), strings being tuples of characters
ReplaceDisallowed(raw) ==
    IF raw = <<>> THEN <<>>
    ELSE <<IF Head(raw) \in NameChars THEN Head(raw) ELSE "_">>
         \o ReplaceDisallowed(Tail(raw))

\* s.slice(0, n)
Slice(s, n) == SubSeq(s, 1, IF Len(s) < n THEN Len(s) ELSE n)

\* the length the synthesized names are cut to (models.ts 969)
maxToolNameLength == 64

\* mutant: the synthesized name is not cut
toOpenAiToolNameUncut(sourceSlug, toolName) ==
    ReplaceDisallowed(sourceSlug \o <<"_","_">> \o toolName)

\* toOpenAiToolName (models.ts 967-970)
toOpenAiToolName(sourceSlug, toolName) ==
    Slice(ReplaceDisallowed(sourceSlug \o <<"_","_">> \o toolName), maxToolNameLength)

RECURSIVE Str(_)
\* a tuple of characters as the string a message or an event carries
Str(chars) == IF chars = <<>> THEN "" ELSE Head(chars) \o Str(Tail(chars))

\* the entries getToolDefinitions sets in this.toolMap (models.ts 904-921)
McpEntries ==
    UNION { { [name |-> toOpenAiToolName(sl, t), sourceSlug |-> sl, tool |-> t] :
                t \in ListedTools(sl) } : sl \in mcpServers }

\* the entries getToolDefinitions sets in this.apiToolMap (models.ts 928-954)
ApiEntries ==
    UNION { { [name |-> toOpenAiToolName(sl, t), sourceSlug |-> sl, tool |-> t] :
                t \in {u \in RegisteredTools(sl) : ToolEnabled(sl, u)} } : sl \in apiServers }

\* mutant: the remote table is looked up first
ResolveToolRemoteFirst(name) ==
    IF \E e \in toolMap : Str(e.name) = name THEN "mcp"
    ELSE IF \E e \in apiToolMap : Str(e.name) = name THEN "api"
    ELSE "unknown"

\* where executeToolCall sends a synthesized name (models.ts 822-830)
ResolveTool(name) ==
    IF \E e \in apiToolMap : Str(e.name) = name THEN "api"
    ELSE IF \E e \in toolMap : Str(e.name) = name THEN "mcp"
    ELSE "unknown"

\* how a dispatched tool can end: the handler or client returns a result, throws,
\* or returns a result flagged isError
ToolOutcomes(target) ==
    IF target = "unknown" THEN {"throw"} ELSE {"ok", "throw", "isError"}

\* executeToolCall / executeApiToolCall (models.ts 821-880): TRUE iff the call throws
ToolThrows(target, outcome) ==
    \/ target = "unknown"
    \/ outcome = "throw"
    \/ target = "api" /\ outcome = "isError"

-----------------------------------------------------------------------------
(* What the backend answers to one chat-completions request *)

Data(c) == DataLine(JsonPayload(c))

\* the backend stamps the answer to request n: chunk id and tool-call ids are fresh
GenId(n) == "gen-" \o ToString(n)
CallId(n, k) == "call" \o ToString(n) \o "_" \o ToString(k)

BodyAnswer(n) ==
    << Data(Chunk(GenId(n), "He", <<>>)), BlankLine,
       Data(Chunk(undefined, "y", <<>>)), BlankLine,
       DataLine(DonePayload), BlankLine >>

BodyOneTool(n) ==
    << Data(Chunk(GenId(n), "", <<Frag(0, CallId(n, 0), "api__get", undefined)>>)), BlankLine,
       Data(Chunk(undefined, "!", <<Frag(0, undefined, undefined, "{}")>>)), BlankLine,
       DataLine(DonePayload), BlankLine >>

BodyTwoTools(n) ==
    << Data(Chunk(GenId(n), undefined, <<Frag(1, CallId(n, 1), "nope__x", undefined),
                                         Frag(0, CallId(n, 0), "mcp__list", "{}")>>)),
       BlankLine >>

BodyNothing == << DataLine(DonePayload), BlankLine >>

BodyErrorChunk(n) ==
    << Data(Chunk(GenId(n), "He", <<>>)), BlankLine,
       Data([NoChunk EXCEPT !.error = TRUE]), BlankLine >>

\* a non-stream JSON body: {id, choices: [{message: {content, tool_calls}}]}
JsonAnswer(n) ==
    [id |-> GenId(n), content |-> "Hey",
     tool_calls |-> <<[id |-> undefined, name |-> undefined, arguments |-> "{}"]>>]

\* the same answer as BodyOneTool(n), not streamed
JsonOneTool(n) ==
    [id |-> GenId(n), content |-> "!",
     tool_calls |-> <<[id |-> CallId(n, 0), name |-> "api__get", arguments |-> "{}"]>>]

HttpResponse(kind, lines, json) == [kind |-> kind, lines |-> lines, json |-> json]

\* the serial the backend gives to the request of round `round` of invocation i
RequestSerial(i, round) == 10 * i + round

\* the answers the backend can give to the request with serial n
Responses(n) ==
    { HttpResponse("sse", b, JsonAnswer(n)) :
        b \in {BodyAnswer(n), BodyOneTool(n), BodyTwoTools(n), BodyNothing,
               BodyErrorChunk(n)} }
      \cup { HttpResponse("json", <<>>, JsonAnswer(n)),
             HttpResponse("json", <<>>, JsonOneTool(n)),
             HttpResponse("badjson", <<>>, JsonAnswer(n)),
             HttpResponse("status", <<>>, JsonAnswer(n)),
             HttpResponse("nobody", <<>>, JsonAnswer(n)) }

\* mutant: the non-stream fallback returns no tool calls
NonStreamAggregateNoToolCalls(json) ==
    [content   |-> Coalesce(json.content, ""),
     toolCalls |-> <<>>,
     turnId    |-> json.id]

\* the aggregate of the non-stream fallback, built from choices[0].message and
\* the id of the body (models.ts 525-541)
NonStreamAggregate(json) ==
    [content   |-> Coalesce(json.content, ""),
     toolCalls |-> NonStreamToolCalls(json.tool_calls),
     turnId    |-> json.id]

\* callOpenRouterStream after fetch resolved (models.ts 500-645): the events it
\* yields, and the aggregate it returns or the error it throws
callOpenRouterStream(resp) ==
    IF resp.kind = "status"
    THEN [StreamStart EXCEPT !.status = "thrown", !.reader = "none",
                             !.error = "OpenRouter API error"]
    ELSE IF resp.kind = "nobody"
    THEN [StreamStart EXCEPT !.status = "thrown", !.reader = "none",
                             !.error = "OpenRouter response missing body"]
    ELSE IF resp.kind = "badjson"
    THEN [StreamStart EXCEPT !.status = "thrown", !.reader = "none",
                             !.error = "OpenRouter non-stream response parse error"]
    ELSE IF resp.kind = "json"
    THEN [StreamStart EXCEPT
            !.status = "returned", !.reader = "none",
            !.result = NonStreamAggregate(resp.json)]
    ELSE RunStream(resp.lines)

-----------------------------------------------------------------------------
(* Subprocess adapter: callCodexCliStream, models.ts 664-785 *)

\* one parsed stdout line: an error event, an assistant delta, or anything else
CodexLine(t, text) == [t |-> t, text |-> text]

CodexStart == [events |-> <<>>, content |-> "", hadError |-> FALSE]

\* handleEvent (models.ts 709-729) applied to one stdout line
handleEvent(st, line) ==
    IF line.t = "error"
    THEN [st EXCEPT !.hadError = TRUE, !.events = Append(@, ErrorEvent(line.text))]
    ELSE IF line.t = "assistant" /\ Truthy(line.text)
    THEN [st EXCEPT !.content = @ \o line.text,
                    !.events = Append(@, TextDelta(line.text, undefined))]
    ELSE st

RECURSIVE readStream(_, _)
\* readStream over the whole stdout (models.ts 731-756)
readStream(st, lines) ==
    IF lines = <<>> THEN st ELSE readStream(handleEvent(st, Head(lines)), Tail(lines))

\* one run of the child process: its stdout lines, stderr text and exit code
CodexRun(stdout, stderr, exitCode) ==
    [stdout |-> stdout, stderr |-> stderr, exitCode |-> exitCode]

CodexRuns ==
    { CodexRun(<<CodexLine("assistant", "Hi"), CodexLine("other", "")>>, "", 0),
      CodexRun(<<CodexLine("assistant", "Hi")>>, "boom", 1),
      CodexRun(<<CodexLine("error", "denied")>>, "", 1),
      CodexRun(<<CodexLine("error", "denied"), CodexLine("error", "again")>>, "", 1),
      CodexRun(<<CodexLine("assistant", "Hi"), CodexLine("error", "denied")>>, "", 0),
      CodexRun(<<>>, "", 0) }

\* mutant: a non-zero exit code is reported even after an explicit error event
callCodexCliStreamEveryExit(run) ==
    LET st == readStream(CodexStart, run.stdout)
    IN  IF run.exitCode # 0
        THEN [st EXCEPT
                !.events = Append(@, ErrorEvent(IF run.stderr # "" THEN run.stderr
                                                ELSE "Codex exited with code")),
                !.content = ""]
        ELSE st

\* the adapter over one run: the events it yields and the content it returns
\* (models.ts 768-784)
callCodexCliStream(run) ==
    LET st == readStream(CodexStart, run.stdout)
    IN  IF ~st.hadError /\ run.exitCode # 0
        THEN [st EXCEPT
                !.events = Append(@, ErrorEvent(IF run.stderr # "" THEN run.stderr
                                                ELSE "Codex exited with code")),
                !.content = ""]
        ELSE st

-----------------------------------------------------------------------------
(* sendMessage, models.ts 300-463: one action per stretch of code between two *)
(* suspension points (await, yield) at which another task can run             *)

\* const maxToolRounds = 5 (models.ts 362)
maxToolRounds == 5

\* the invocations a caller can make on the runtime, numbered in call order
Invocations == {1, 2}

OverflowMessage == "Too many tool call rounds; aborting to avoid infinite loop."

NoInput == [text |-> "", mentions |-> {}]

\* an invocation not yet made
IdleInvocation ==
    [pc |-> "idle", input |-> NoInput, baseHistory |-> <<>>, firstRoundMessages |-> <<>>,
     round |-> 0, toolCalls |-> <<>>, turnId |-> undefined, pos |-> 0, target |-> "none",
     pending |-> "", pendingIsError |-> FALSE, events |-> <<>>, aborted |-> FALSE,
     thrown |-> "",
     \* options.messages of the last request sent
     request |-> <<>>,
     \* what the invocation has done so far: requests sent, tool-calling answers
     \* received, tool listings, tools dispatched, every tool call the model
     \* returned, the ids of those whose execution threw, whether the tool of the
     \* call just answered gave a result flagged isError, and the terminal failure
     \* it met
     modelCalls |-> 0, toolRounds |-> 0, defCalls |-> 0, toolRuns |-> 0,
     calls |-> <<>>, threw |-> {}, flagged |-> FALSE, failure |-> "none",
     \* how many times the subprocess adapter was called, and the runs of the
     \* child process it went through
     codexCalls |-> 0, codexRun |-> <<>>,
     \* the kind of the response to the last request, "none" until it arrives
     respKind |-> "none",
     \* where in the tool loop the invocation stood when its signal fired,
     \* "other" with position 0 if it was not executing tools
     abortAt |-> [pc |-> "none", pos |-> 0],
     \* this.model as read when the backend was chosen, the key resolved for it,
     \* and the endpoint the last request was sent to
     selected |-> <<>>, apiKey |-> undefined, endpoint |-> "none"]

Running(i) == i \in live /\ inv[i].pc \notin {"idle", "done", "thrown"}

\* what no action of sendMessage changes
Others == <<model, envVars, aggVars, streamVars, toolVars, procVars>>

\* mutant: chat() emits complete after sendMessage returned, not after it threw
ChatCompletesOnReturn(me) == me.pc = "done"

\* the generator sendMessage has ended, by return or by throw: `yield*` in chat()
\* is left and its finally block runs (models.ts 1032-1038)
ChatCompletes(me) == me.pc \in {"done", "thrown"}

\* the finally block of chat() (models.ts 1034-1038), run in the step in which
\* the sendMessage it delegates to ends; nothing for an invocation that was not
\* made through chat()
ChatFinally(i) ==
    IF chat[i].pc = "delegating" /\ ChatCompletes(inv'[i])
    THEN /\ currentAbortController' = 0
         /\ chat' = [chat EXCEPT ![i] = [@ EXCEPT !.pc = "done",
                                                  !.tail = Append(@, CompleteEvent)]]
         /\ UNCHANGED forceAborts
    ELSE UNCHANGED chatVars

\* the invocation is called and runs to `await buildSkillSystemMessagesFromMentions`
\* (models.ts 304-309)
Start(i) ==
    /\ i \in live
    /\ inv[i].pc = "idle"
    /\ \A j \in live : j < i => inv[j].pc # "idle"
    /\ inv' = [inv EXCEPT ![i] = [@ EXCEPT !.pc = "skills", !.input = UserInput(i),
                                          !.baseHistory = conversationHistory]]
    /\ UNCHANGED <<conversationHistory, toolMap, apiToolMap, toolBudget, served, Others>>
    /\ ChatFinally(i)

\* the history write of models.ts 313
PersistUserMessage(baseHistory, userMessage) == Append(baseHistory, userMessage)

\* the awaited skills arrive: the user message is persisted and the backend chosen;
\* a direct model without Codex login ends with one error event (models.ts 310-353)
AfterSkills(i) ==
    LET me          == inv[i]
        userMessage == UserMessage(me.input.text)
        skills      == buildSkillSystemMessagesFromMentions(me.input)
        first       == me.baseHistory \o skills \o <<userMessage>>
    IN  /\ me.pc = "skills"
        /\ conversationHistory' = PersistUserMessage(me.baseHistory, userMessage)
        /\ inv' = [inv EXCEPT ![i] =
              IF isOpenAIModel(model)
              THEN IF ~codexAuthFile
                   THEN [@ EXCEPT !.pc = "done", !.firstRoundMessages = first,
                                  !.failure = "auth", !.selected = model,
                                  !.events = Append(@, ErrorEvent("No Codex login found"))]
                   ELSE [@ EXCEPT !.pc = "codex", !.firstRoundMessages = first,
                                  !.codexCalls = @ + 1, !.selected = model]
              ELSE [@ EXCEPT !.pc = "getKey", !.firstRoundMessages = first,
                             !.selected = model]]
        /\ UNCHANGED <<toolMap, apiToolMap, toolBudget, served, Others>>
        /\ ChatFinally(i)

\* mutant: the direct branch does not return and runs on into the round loop
AfterCodexFallsThrough(me, run, r) ==
    [me EXCEPT
        !.pc = "getKey",
        !.codexRun = Append(@, run),
        !.failure = IF r.hadError \/ run.exitCode # 0 THEN "exit" ELSE "none",
        !.events = @ \o r.events \o
                   (IF Truthy(r.content)
                    THEN <<TextComplete(r.content, FALSE, undefined)>>
                    ELSE <<>>)]

\* the invocation once the adapter has returned r over the run: the events are
\* passed on, the text completed, and the invocation returns (models.ts 335-349)
AfterCodex(me, run, r) ==
    [me EXCEPT
        !.pc = "done",
        !.codexRun = Append(@, run),
        !.failure = IF r.hadError \/ run.exitCode # 0 THEN "exit" ELSE "none",
        !.events = @ \o r.events \o
                   (IF Truthy(r.content)
                    THEN <<TextComplete(r.content, FALSE, undefined)>>
                    ELSE <<>>)]

\* the child process has run and the adapter returns: its events are passed on,
\* the assistant text is pushed and completed (models.ts 335-349)
CodexSettle(i) ==
    LET me == inv[i]
    IN  /\ me.pc = "codex"
        /\ \E run \in CodexRuns :
             LET r == callCodexCliStream(run)
             IN  /\ conversationHistory' =
                        Append(conversationHistory,
                               Message("assistant", r.content, undefined, FALSE, <<>>))
                 /\ inv' = [inv EXCEPT ![i] = AfterCodex(me, run, r)]
        /\ UNCHANGED <<toolMap, apiToolMap, toolBudget, served, Others>>
        /\ ChatFinally(i)

\* mutant: without a stored key the request goes out with a placeholder token
getApiKeyOrPlaceholder(m) == IF Truthy(credential) THEN credential ELSE "anonymous"

\* getApiKey (models.ts 992-999)
getApiKey(m) == IF isOpenAIModel(m) THEN undefined ELSE credential

\* mutant: the loop has no cap
MoreRoundsAlways(round) == TRUE

\* mutant: the loop runs while round <= maxToolRounds
MoreRoundsInclusive(round) == round < 5 + 1

\* the loop condition `round < maxToolRounds` (models.ts 363)
MoreRounds(round) == round < maxToolRounds

\* the credential lookup, called with this.model as it was when the backend was
\* chosen, returns: without a key one error event ends the invocation,
\* with a key round 0 starts and getToolDefinitions clears the two tables
\* (models.ts 353-364, 886-887)
AfterKey(i) ==
    LET me     == inv[i]
        apiKey == getApiKey(me.selected)
    IN  /\ me.pc = "getKey"
        /\ IF ~Truthy(apiKey)
           THEN /\ inv' = [inv EXCEPT ![i] = [@ EXCEPT
                       !.pc = "done", !.failure = "auth",
                       !.events = Append(@, ErrorEvent("No OpenRouter API key configured"))]]
                /\ UNCHANGED <<toolMap, apiToolMap>>
           ELSE /\ inv' = [inv EXCEPT ![i] = [@ EXCEPT
                       !.pc = "toolDefs", !.round = 0, !.defCalls = @ + 1,
                       !.apiKey = apiKey]]
                /\ toolMap' = {}
                /\ apiToolMap' = {}
        /\ UNCHANGED <<conversationHistory, toolBudget, served, Others>>
        /\ ChatFinally(i)

\* mutant: every round sends the list built for round 0
RequestMessagesFirstRound(me) == me.firstRoundMessages

\* messages: round === 0 ? firstRoundMessages : this.conversationHistory
\* (models.ts 369)
RequestMessages(me) ==
    IF me.round = 0 THEN me.firstRoundMessages ELSE conversationHistory

\* the tool listing returns: the tables are filled and the request is sent to
\* the endpoint of this.model as it is now (models.ts 902-961, 366-370, 473-498)
ToolDefsDone(i) ==
    /\ inv[i].pc = "toolDefs"
    /\ toolMap' = toolMap \cup McpEntries
    /\ apiToolMap' = apiToolMap \cup ApiEntries
    /\ inv' = [inv EXCEPT ![i] = [@ EXCEPT !.pc = "fetch", !.modelCalls = @ + 1,
                                          !.request = RequestMessages(inv[i]),
                                          !.respKind = "none",
                                          !.endpoint = getApiEndpoint(model)]]
    /\ UNCHANGED <<conversationHistory, toolBudget, served, Others>>
    /\ ChatFinally(i)

\* fetch, or the first reader.read(), rejects because the signal has fired; no
\* catch in callOpenRouterStream or sendMessage takes the rejection
\* (models.ts 488-498, 611, 376-385)
HttpAbort(i) ==
    /\ inv[i].pc = "fetch"
    /\ inv[i].aborted
    /\ inv' = [inv EXCEPT ![i] = [@ EXCEPT !.pc = "thrown", !.thrown = "AbortError",
                                          !.failure = "abort"]]
    /\ UNCHANGED <<conversationHistory, toolMap, apiToolMap, toolBudget, served, Others>>
    /\ ChatFinally(i)

\* mutant: text_complete is never flagged intermediate
AfterModelCallFinalText(me, agg) ==
    LET hasToolCalls == Len(agg.toolCalls) > 0
        withText == IF Truthy(agg.content)
                    THEN Append(me.events, TextComplete(agg.content, FALSE, agg.turnId))
                    ELSE me.events
    IN  IF ~hasToolCalls
        THEN [me EXCEPT !.pc = "done", !.events = withText,
                        !.toolCalls = <<>>, !.turnId = agg.turnId]
        ELSE [me EXCEPT !.pc = "toolStart", !.pos = 1,
                        !.toolCalls = agg.toolCalls, !.turnId = agg.turnId,
                        !.toolRounds = @ + 1, !.calls = @ \o agg.toolCalls,
                        !.events = Append(withText, ToolStart(agg.toolCalls[1].id,
                                                              agg.toolCalls[1].name,
                                                              agg.turnId))]

\* mutant: every tool call of the round is announced before the first one runs
AfterModelCallAnnounceAll(me, agg) ==
    LET hasToolCalls == Len(agg.toolCalls) > 0
        withText == IF Truthy(agg.content)
                    THEN Append(me.events, TextComplete(agg.content, hasToolCalls, agg.turnId))
                    ELSE me.events
    IN  IF ~hasToolCalls
        THEN [me EXCEPT !.pc = "done", !.events = withText,
                        !.toolCalls = <<>>, !.turnId = agg.turnId]
        ELSE [me EXCEPT !.pc = "toolStart", !.pos = 1,
                        !.toolCalls = agg.toolCalls, !.turnId = agg.turnId,
                        !.toolRounds = @ + 1, !.calls = @ \o agg.toolCalls,
                        !.events = withText \o
                                   [k \in 1..Len(agg.toolCalls) |->
                                      ToolStart(agg.toolCalls[k].id, agg.toolCalls[k].name,
                                                agg.turnId)]]

\* the invocation after callOpenRouterStream returned `agg`, up to its next
\* suspension: text_complete, then return or the first tool_start (models.ts 387-423)
AfterModelCall(me, agg) ==
    LET hasToolCalls == Len(agg.toolCalls) > 0
        withText == IF Truthy(agg.content)
                    THEN Append(me.events, TextComplete(agg.content, hasToolCalls, agg.turnId))
                    ELSE me.events
    IN  IF ~hasToolCalls
        THEN [me EXCEPT !.pc = "done", !.events = withText,
                        !.toolCalls = <<>>, !.turnId = agg.turnId]
        ELSE [me EXCEPT !.pc = "toolStart", !.pos = 1,
                        !.toolCalls = agg.toolCalls, !.turnId = agg.turnId,
                        !.toolRounds = @ + 1, !.calls = @ \o agg.toolCalls,
                        !.events = Append(withText, ToolStart(agg.toolCalls[1].id,
                                                              agg.toolCalls[1].name,
                                                              agg.turnId))]

\* mutant: a transport error starts the round again
AfterTransportErrorRetry(me, error, kind) ==
    [me EXCEPT !.pc = "toolDefs", !.failure = kind]

\* callOpenRouterStream throws inside `await stream.next()`: nothing in
\* sendMessage catches, the generator ends with the error (models.ts 376-385)
AfterTransportError(me, error, kind) ==
    [me EXCEPT !.pc = "thrown", !.thrown = error, !.failure = kind]

\* the response arrives and is read to its end: the transport's events are passed
\* on; a transport error leaves the generator, an aggregate is appended to the
\* history and its first tool call announced (models.ts 376-423)
HttpSettle(i) ==
    LET me == inv[i]
    IN  /\ me.pc = "fetch"
        /\ ~me.aborted
        /\ \E resp \in Responses(RequestSerial(i, me.round)) :
             LET r        == callOpenRouterStream(resp)
                 streamed == [me EXCEPT !.events = @ \o r.events, !.respKind = resp.kind]
                 calls    == r.status = "returned" /\ Len(r.result.toolCalls) > 0
             IN  /\ calls => toolBudget > 0
                 /\ toolBudget' = IF calls THEN toolBudget - 1 ELSE toolBudget
                 /\ IF r.status = "thrown"
                    THEN /\ inv' = [inv EXCEPT ![i] =
                                AfterTransportError(streamed, r.error, resp.kind)]
                         /\ UNCHANGED conversationHistory
                    ELSE /\ conversationHistory' =
                                Append(conversationHistory,
                                       AssistantMessage(r.result.content, r.result.toolCalls))
                         /\ inv' = [inv EXCEPT ![i] = AfterModelCall(streamed, r.result)]
        /\ served' = served + 1
        /\ UNCHANGED <<toolMap, apiToolMap, Others>>
        /\ ChatFinally(i)

\* executeToolCall is entered and resolves the name (models.ts 426, 822-833)
ToolDispatch(i) ==
    LET me == inv[i]
        target == ResolveTool(me.toolCalls[me.pos].name)
    IN  /\ me.pc = "toolStart"
        /\ inv' = [inv EXCEPT ![i] = [@ EXCEPT
               !.pc = "toolExec", !.target = target,
               !.toolRuns = IF target = "unknown" THEN @ ELSE @ + 1]]
        /\ UNCHANGED <<conversationHistory, toolMap, apiToolMap, toolBudget, served, Others>>
        /\ ChatFinally(i)

\* mutant: an error thrown by the tool leaves the generator
AfterToolCallUncaught(me, threw) ==
    IF threw
    THEN [me EXCEPT !.pc = "thrown", !.thrown = "tool error"]
    ELSE [me EXCEPT !.pc = "toolResult", !.pending = "result", !.pendingIsError = FALSE,
                    !.events = Append(@, ToolResult(me.toolCalls[me.pos].id, "result",
                                                    FALSE, me.turnId))]

\* mutant: a tool call that settles after the signal fired is discarded
AfterToolCallUnlessAborted(me, threw) ==
    IF me.aborted
    THEN [me EXCEPT !.pc = "thrown", !.thrown = "AbortError", !.failure = "abort"]
    ELSE [me EXCEPT !.pc = "toolResult",
                    !.pending = IF threw THEN "error message" ELSE "result",
                    !.pendingIsError = threw,
                    !.events = Append(@, ToolResult(me.toolCalls[me.pos].id,
                                                    IF threw THEN "error message" ELSE "result",
                                                    threw, me.turnId))]

\* mutant: once the signal has fired the tool calls that remain are skipped
AfterToolCallSkipsRest(me, threw) ==
    LET text == IF threw THEN "error message" ELSE "result"
    IN  [me EXCEPT !.pc = "toolResult", !.pending = text, !.pendingIsError = threw,
                   !.pos = IF me.aborted THEN Len(me.toolCalls) ELSE @,
                   !.events = Append(@, ToolResult(me.toolCalls[me.pos].id, text,
                                                   threw, me.turnId))]

\* the try/catch around executeToolCall up to `yield tool_result`: the result, or
\* the message of the caught error, is announced and kept for the history
\* (models.ts 425-449)
AfterToolCall(me, threw) ==
    LET text == IF threw THEN "error message" ELSE "result"
    IN  [me EXCEPT !.pc = "toolResult", !.pending = text, !.pendingIsError = threw,
                   !.events = Append(@, ToolResult(me.toolCalls[me.pos].id, text,
                                                   threw, me.turnId))]

\* executeToolCall settles (models.ts 426-449)
ToolSettle(i) ==
    LET me == inv[i]
    IN  /\ me.pc = "toolExec"
        /\ \E outcome \in ToolOutcomes(me.target) :
             LET threw == ToolThrows(me.target, outcome)
                 id    == me.toolCalls[me.pos].id
                 ran   == [me EXCEPT
                             !.threw = IF threw THEN @ \cup {id} ELSE @,
                             !.flagged = (outcome = "isError")]
             IN  inv' = [inv EXCEPT ![i] = AfterToolCall(ran, threw)]
        /\ UNCHANGED <<conversationHistory, toolMap, apiToolMap, toolBudget, served, Others>>
        /\ ChatFinally(i)

\* the generator is resumed after tool_result: the tool message is pushed, then the
\* next tool call is announced, or the next round starts, or the round cap is hit
\* (models.ts 435-439, 450-462)
ToolResume(i) ==
    LET me   == inv[i]
        tc   == me.toolCalls[me.pos]
        last == me.pos = Len(me.toolCalls)
        more == MoreRounds(me.round + 1)
    IN  /\ me.pc = "toolResult"
        /\ conversationHistory' = Append(conversationHistory, ToolMessage(tc.id, me.pending))
        /\ inv' = [inv EXCEPT ![i] =
              IF ~last
              THEN [@ EXCEPT !.pc = "toolStart", !.pos = @ + 1, !.flagged = FALSE,
                             !.events = Append(@, ToolStart(me.toolCalls[me.pos + 1].id,
                                                            me.toolCalls[me.pos + 1].name,
                                                            me.turnId))]
              ELSE IF more
              THEN [@ EXCEPT !.pc = "toolDefs", !.round = @ + 1, !.defCalls = @ + 1,
                             !.flagged = FALSE]
              ELSE [@ EXCEPT !.pc = "done", !.round = @ + 1, !.failure = "overflow",
                             !.flagged = FALSE,
                             !.events = Append(@, ErrorEvent(OverflowMessage))]]
        /\ toolMap' = IF last /\ more THEN {} ELSE toolMap
        /\ apiToolMap' = IF last /\ more THEN {} ELSE apiToolMap
        /\ UNCHANGED <<toolBudget, served, Others>>
        /\ ChatFinally(i)

\* the owner of the signal passed in options.signal fires it
Abort(i) ==
    /\ Running(i)
    /\ ~inv[i].aborted
    /\ inv' = [inv EXCEPT ![i] = [@ EXCEPT
           !.aborted = TRUE,
           !.abortAt = IF inv[i].pc \in {"toolStart", "toolExec", "toolResult"}
                       THEN [pc |-> inv[i].pc, pos |-> inv[i].pos]
                       ELSE [pc |-> "other", pos |-> 0]]]
    /\ UNCHANGED <<conversationHistory, toolMap, apiToolMap, toolBudget, served, Others>>
    /\ ChatFinally(i)

-----------------------------------------------------------------------------
(* The tool layer of the runtime: setSourceServers, getToolDefinitions,     *)
(* executeToolCall, getOrCreateMcpClient, close and dispose                  *)
(* (models.ts 821-987, 1044-1100); one action per stretch of code between    *)
(* two awaits                                                                *)

\* bound: calls the caller makes in a run of SpecTools, of setSourceServers,
\* getToolDefinitions, executeToolCall, close and dispose together
MaxCalls == 4

SourceConfig(mcp, api, intended) ==
    [mcpServers |-> mcp, apiServers |-> api, intendedSourceSlugs |-> intended]

\* what the caller passes to setSourceServers: the keys of the two records in
\* order, and the intended slugs
SourceConfigs ==
    { SourceConfig(<<McpSlug, BothSlug>>, <<ApiSlug, BothSlug>>, <<>>),
      SourceConfig(<<DottedSlug, LongSlug>>, <<BareSlug, BrokenSlug, ApiSlug>>, <<>>),
      SourceConfig(<<McpSlug, LongSlug>>, <<ApiSlug>>, <<LongSlug, ApiSlug, GoneSlug>>) }

Elems(q) == {q[k] : k \in DOMAIN q}

RECURSIVE Dedupe(_)
\* [...new Set(q)]: the first occurrence of each element, in order
Dedupe(q) ==
    IF q = <<>> THEN <<>>
    ELSE LET rest == Dedupe(SubSeq(q, 1, Len(q) - 1))
         IN  IF q[Len(q)] \in Elems(rest) THEN rest ELSE Append(rest, q[Len(q)])

\* activeSlugs of getToolDefinitions (models.ts 889-898)
ActiveSlugs(cfg) ==
    LET allSlugs == Dedupe(cfg.mcpServers \o cfg.apiServers)
    IN  IF Len(cfg.intendedSourceSlugs) > 0
        THEN SelectSeq(cfg.intendedSourceSlugs, LAMBDA sl : sl \in Elems(allSlugs))
        ELSE allSlugs

\* the entries and definitions of the tools of one source
Entries(slug, tools) ==
    {[name |-> toOpenAiToolName(slug, t), sourceSlug |-> slug, tool |-> t] : t \in tools}

\* Map.set for each new entry: an entry under the same name is replaced
MapSet(map, new) == {e \in map : \A n \in new : n.name # e.name} \cup new

\* this.mcpClients.get(slug): the cached client, 0 if there is none
CachedId(cache, slug) ==
    IF \E c \in cache : c.slug = slug
    THEN (CHOOSE c \in cache : c.slug = slug).id
    ELSE 0

NewClient(slug) == [slug |-> slug, closeCalls |-> 0, closeFailed |-> FALSE, evicted |-> FALSE]

\* the part of the state the tool layer works on
Tl ==
    [toolMap |-> toolMap, apiToolMap |-> apiToolMap, mcpClients |-> mcpClients,
     clients |-> clients, listing |-> listing, synthesized |-> synthesized]

SetTl(tl) ==
    /\ toolMap' = tl.toolMap
    /\ apiToolMap' = tl.apiToolMap
    /\ mcpClients' = tl.mcpClients
    /\ clients' = tl.clients
    /\ listing' = tl.listing
    /\ synthesized' = tl.synthesized

\* mutant: a client is constructed on every call
getOrCreateMcpClientAlwaysNew(tl, slug) ==
    [tl EXCEPT !.clients = Append(@, NewClient(slug)),
               !.mcpClients = {c \in @ : c.slug # slug}
                              \cup {[slug |-> slug, id |-> Len(tl.clients) + 1]}]

\* getOrCreateMcpClient for a configured source (models.ts 972-987)
getOrCreateMcpClient(tl, slug) ==
    IF CachedId(tl.mcpClients, slug) # 0 THEN tl
    ELSE [tl EXCEPT !.clients = Append(@, NewClient(slug)),
                    !.mcpClients = {c \in @ : c.slug # slug}
                                   \cup {[slug |-> slug, id |-> Len(tl.clients) + 1]}]

\* no getToolDefinitions call made yet
ListingIdle ==
    [pc |-> "idle", activeSlugs |-> <<>>, k |-> 0, client |-> 0,
     \* the names of the definitions built so far
     defs |-> {},
     \* what the sources gave in this call: the tools of each listing that
     \* succeeded, and the listings that failed; whether setSourceServers was
     \* called since the call began
     listed |-> {}, failed |-> {}, reconfigured |-> FALSE]

\* mutant: the two tables are not cleared
ListingStartKeepsTables(tl) ==
    [tl EXCEPT !.listing = [ListingIdle EXCEPT !.pc = "running",
                                               !.activeSlugs = ActiveSlugs(servers),
                                               !.k = 1]]

\* getToolDefinitions up to the loop: the tables are cleared and the active
\* slugs computed (models.ts 885-900)
ListingStart(tl) ==
    [tl EXCEPT !.toolMap = {}, !.apiToolMap = {},
               !.listing = [ListingIdle EXCEPT !.pc = "running",
                                               !.activeSlugs = ActiveSlugs(servers),
                                               !.k = 1]]

Listed(slug, kind, tools) == [slug |-> slug, kind |-> kind, tools |-> tools]
Synthesis(entries) ==
    {[sourceSlug |-> e.sourceSlug, toolName |-> e.tool, name |-> e.name] : e \in entries}

\* the listing of a remote source has resolved with its tools (models.ts 908-921)
McpPart(tl, slug) ==
    LET new == Entries(slug, ListedTools(slug))
    IN  [tl EXCEPT !.toolMap = MapSet(@, new),
                   !.synthesized = @ \cup Synthesis(new),
                   !.listing.defs = @ \cup {e.name : e \in new},
                   !.listing.listed = @ \cup {Listed(slug, "mcp", ListedTools(slug))}]

\* the listing of a remote source has rejected (models.ts 922-924)
McpFailed(tl, slug) ==
    [tl EXCEPT !.listing.failed = @ \cup {[slug |-> slug, kind |-> "mcp"]}]

\* the in-process part of one source (models.ts 928-957)
ApiPart(tl, slug) ==
    IF slug \notin Elems(servers.apiServers) THEN tl
    ELSE IF ~HasInstance(slug) THEN tl
    ELSE IF SetHandlersThrows(slug)
    THEN [tl EXCEPT !.listing.failed = @ \cup {[slug |-> slug, kind |-> "api"]}]
    ELSE LET tools == {t \in RegisteredTools(slug) : ToolEnabled(slug, t)}
             new   == Entries(slug, tools)
         IN  [tl EXCEPT !.apiToolMap = MapSet(@, new),
                        !.synthesized = @ \cup Synthesis(new),
                        !.listing.defs = @ \cup {e.name : e \in new},
                        !.listing.listed = @ \cup {Listed(slug, "api", tools)}]

RECURSIVE ListFrom(_, _)
\* the loop of getToolDefinitions from the k-th active slug to the next await,
\* the listTools call of a remote source, or to the return (models.ts 902-961)
ListFrom(tl, k) ==
    LET active == tl.listing.activeSlugs
    IN  IF k > Len(active)
        THEN [tl EXCEPT !.listing.pc = "returned", !.listing.k = k, !.listing.client = 0]
        ELSE IF active[k] \in Elems(servers.mcpServers)
        THEN LET got == getOrCreateMcpClient(tl, active[k])
             IN  [got EXCEPT !.listing.pc = "listTools", !.listing.k = k,
                             !.listing.client = CachedId(got.mcpClients, active[k])]
        ELSE ListFrom(ApiPart(tl, active[k]), k + 1)

\* what no action of the tool layer changes
NotTools ==
    <<conversationHistory, model, inv, toolBudget, served, envVars, aggVars, streamVars,
      procVars, chatVars>>

\* setSourceServers (models.ts 1044-1052)
SetSourceServers ==
    /\ ops.calls < MaxCalls
    /\ \E cfg \in SourceConfigs \ {servers} : servers' = cfg
    /\ ops' = [ops EXCEPT !.calls = @ + 1]
    /\ listing' = [listing EXCEPT !.reconfigured = listing.pc # "idle"]
    /\ UNCHANGED <<toolMap, apiToolMap, mcpClients, clients, exec, closer,
                   synthesized, NotTools>>

\* getToolDefinitions is called and runs to its first await or to its return
GetToolDefinitions ==
    /\ listing.pc \in {"idle", "returned"}
    /\ ops.calls < MaxCalls
    /\ SetTl(ListFrom(ListingStart(Tl), 1))
    /\ ops' = [ops EXCEPT !.calls = @ + 1]
    /\ UNCHANGED <<servers, exec, closer, NotTools>>

\* client.listTools() settles, with the tools or with an error, and the loop
\* runs on to the next await or to the return
ListToolsSettle ==
    /\ listing.pc = "listTools"
    /\ \E ok \in BOOLEAN :
         LET slug == listing.activeSlugs[listing.k]
             got  == IF ok THEN McpPart(Tl, slug) ELSE McpFailed(Tl, slug)
         IN  SetTl(ListFrom(ApiPart(got, slug), listing.k + 1))
    /\ UNCHANGED <<servers, exec, closer, ops, NotTools>>

\* the names a model can call: every name a configured tool can get, and one
\* that no source has
ToolCallNames ==
    { Str(toOpenAiToolName(McpSlug, ListTool)), Str(toOpenAiToolName(BothSlug, GetTool)),
      Str(toOpenAiToolName(ApiSlug, GetTool)), "nope__x" }

NoExec ==
    [name |-> "", inApi |-> FALSE, inRemote |-> FALSE, target |-> "none",
     handler |-> <<>>, client |-> 0, remoteTool |-> <<>>, error |-> ""]

\* executeToolCall(name) up to the call of the handler or of client.callTool
\* (models.ts 821-834, 850-863)
ExecuteToolCall ==
    /\ ops.calls < MaxCalls
    /\ \E name \in ToolCallNames :
         LET target == ResolveTool(name)
             seen   == [NoExec EXCEPT
                          !.name = name, !.target = target,
                          !.inApi = \E e \in apiToolMap : Str(e.name) = name,
                          !.inRemote = \E e \in toolMap : Str(e.name) = name]
         IN  IF target = "api"
             THEN LET e == CHOOSE e \in apiToolMap : Str(e.name) = name
                  IN  /\ exec' =
                           IF e.sourceSlug \notin Elems(servers.apiServers)
                              \/ ~HasInstance(e.sourceSlug)
                           THEN [seen EXCEPT !.error = "API server not configured"]
                           ELSE IF e.tool \notin RegisteredTools(e.sourceSlug)
                           THEN [seen EXCEPT !.error = "API tool not found"]
                           ELSE [seen EXCEPT !.handler = <<e.sourceSlug, e.tool>>]
                      /\ UNCHANGED <<mcpClients, clients>>
             ELSE IF target = "mcp"
             THEN LET e == CHOOSE e \in toolMap : Str(e.name) = name
                  IN  IF CachedId(mcpClients, e.sourceSlug) = 0
                         /\ e.sourceSlug \notin Elems(servers.mcpServers)
                      THEN /\ exec' = [seen EXCEPT !.error = "MCP server not configured"]
                           /\ UNCHANGED <<mcpClients, clients>>
                      ELSE LET got == getOrCreateMcpClient(Tl, e.sourceSlug)
                           IN  /\ mcpClients' = got.mcpClients
                               /\ clients' = got.clients
                               /\ exec' = [seen EXCEPT
                                    !.client = CachedId(got.mcpClients, e.sourceSlug),
                                    !.remoteTool = <<e.sourceSlug, e.tool>>]
             ELSE /\ exec' = [seen EXCEPT !.error = "Unknown tool"]
                  /\ UNCHANGED <<mcpClients, clients>>
    /\ ops' = [ops EXCEPT !.calls = @ + 1]
    /\ UNCHANGED <<servers, toolMap, apiToolMap, listing, closer, synthesized, NotTools>>

CloserIdle == [pc |-> "idle", visited |-> {}, current |-> 0]

\* the loop of close() from the next client of the cache to the next await, or
\* to the clear of the cache (models.ts 1092-1095); a Map is iterated in order of
\* insertion, entries added during the iteration included
CloseFrom(log, visited) ==
    LET rest == {c.id : c \in {d \in mcpClients : d.id \notin visited}}
    IN  IF rest = {}
        THEN /\ mcpClients' = {}
             /\ clients' = [k \in DOMAIN log |->
                              IF \E c \in mcpClients : c.id = k
                              THEN [log[k] EXCEPT !.evicted = TRUE] ELSE log[k]]
             /\ closer' = CloserIdle
             /\ ops' = [ops EXCEPT !.disposed = @ + 1,
                                   !.calls = IF closer.pc = "idle" THEN @ + 1 ELSE @]
        ELSE /\ clients' = [log EXCEPT ![Min(rest)].closeCalls = @ + 1]
             /\ closer' = [pc |-> "closing", visited |-> visited \cup {Min(rest)},
                           current |-> Min(rest)]
             /\ ops' = [ops EXCEPT !.calls = IF closer.pc = "idle" THEN @ + 1 ELSE @]
             /\ UNCHANGED mcpClients

\* close() is called and runs to its first await or to its return
Close ==
    /\ closer.pc = "idle"
    /\ ops.calls < MaxCalls
    /\ CloseFrom(clients, {})
    /\ UNCHANGED <<servers, toolMap, apiToolMap, listing, exec, synthesized, NotTools>>

\* client.close() settles, resolved or rejected; the rejection is swallowed
CloseSettle ==
    /\ closer.pc = "closing"
    /\ \E ok \in BOOLEAN :
         CloseFrom([clients EXCEPT ![closer.current].closeFailed = ~ok], closer.visited)
    /\ UNCHANGED <<servers, toolMap, apiToolMap, listing, exec, synthesized, NotTools>>

\* dispose() (models.ts 1098-1100): the current request is aborted
Dispose ==
    /\ ops.calls < MaxCalls
    /\ ops' = [ops EXCEPT !.calls = @ + 1, !.disposed = @ + 1]
    /\ UNCHANGED <<servers, toolMap, apiToolMap, mcpClients, clients, listing, exec,
                   closer, synthesized, NotTools>>

ToolsNext ==
    \/ SetSourceServers
    \/ GetToolDefinitions
    \/ ListToolsSettle
    \/ ExecuteToolCall
    \/ Close
    \/ CloseSettle
    \/ Dispose

-----------------------------------------------------------------------------
(* chat(), forceAbort / stop and setModel (models.ts 1018-1039, 1085-1088,  *)
(* 1105-1114): the calls a user of the runtime makes while it is working    *)

\* bound: number of forceAbort / stop calls in a run
MaxForceAborts == 1

\* what chat(i) can be called with: the text of the user, or blanks only
ChatMessages(i) == {UserInput(i).text, "  "}

\* userMessage.trim() (models.ts 1023)
Trim(message) == IF message \in {"", " ", "  "} THEN "" ELSE message

NotChat ==
    <<aggVars, streamVars, toolMap, apiToolMap, toolBudget, served, envVars, toolVars,
      procVars>>

\* chat() is called and runs to its first suspension: a blank message gives an
\* error event and complete; otherwise a controller is created and stored and
\* sendMessage is entered with its signal (models.ts 1018-1033, 304-309)
Chat(i) ==
    /\ i \in live
    /\ chat[i].pc = "idle"
    /\ inv[i].pc = "idle"
    /\ \A j \in live : j < i => chat[j].pc # "idle"
    /\ \E message \in ChatMessages(i) :
         IF Trim(message) = ""
         THEN /\ chat' = [chat EXCEPT ![i] =
                     [pc |-> "done", message |-> message,
                      tail |-> <<ErrorEvent("Cannot send empty message"), CompleteEvent>>]]
              /\ UNCHANGED <<currentAbortController, inv>>
         ELSE /\ currentAbortController' = i
              /\ chat' = [chat EXCEPT ![i] =
                     [pc |-> "delegating", message |-> message, tail |-> <<>>]]
              /\ inv' = [inv EXCEPT ![i] = [@ EXCEPT
                     !.pc = "skills",
                     !.input = [UserInput(i) EXCEPT !.text = message],
                     !.baseHistory = conversationHistory]]
    /\ UNCHANGED <<conversationHistory, model, forceAborts, NotChat>>

\* forceAbort, also reached through stop (models.ts 1085-1088, 1105-1107): the
\* stored controller, if any, fires its signal and is forgotten
ForceAbort ==
    /\ forceAborts < MaxForceAborts
    /\ forceAborts' = forceAborts + 1
    /\ currentAbortController' = 0
    /\ inv' = IF currentAbortController = 0 \/ inv[currentAbortController].aborted
              THEN inv
              ELSE [inv EXCEPT ![currentAbortController] = [@ EXCEPT
                      !.aborted = TRUE,
                      !.abortAt = IF @.pc \in {"toolStart", "toolExec", "toolResult"}
                                  THEN [pc |-> @.pc, pos |-> @.pos]
                                  ELSE [pc |-> "other", pos |-> 0]]]
    /\ UNCHANGED <<conversationHistory, model, chat, NotChat>>

\* setModel (models.ts 1112-1114)
SetModel ==
    /\ \E m \in Models : m # model /\ model' = m
    /\ UNCHANGED <<conversationHistory, inv, chatVars, NotChat>>

ChatNext ==
    \/ \E i \in Invocations :
          \/ Chat(i)
          \/ AfterSkills(i)
          \/ CodexSettle(i)
          \/ AfterKey(i)
          \/ ToolDefsDone(i)
          \/ HttpAbort(i)
          \/ HttpSettle(i)
          \/ ToolDispatch(i)
          \/ ToolSettle(i)
          \/ ToolResume(i)
    \/ ForceAbort

\* sendMessage invocations with setModel calls in between
SetModelNext ==
    \/ \E i \in Invocations :
          \/ Start(i)
          \/ AfterSkills(i)
          \/ CodexSettle(i)
          \/ AfterKey(i)
          \/ ToolDefsDone(i)
          \/ HttpSettle(i)
          \/ ToolDispatch(i)
          \/ ToolSettle(i)
          \/ ToolResume(i)
    \/ SetModel

-----------------------------------------------------------------------------
(* One call of callCodexCliStream with its child process, event by event  *)
(* (models.ts 664-785): the pipes deliver and close and the process exits   *)
(* in any order; one action per event of the child process                  *)

\* the adapter has spawned the child over `run`, written the prompt and started
\* to read both pipes (models.ts 679-694, 758-765)
CodexSpawned(run) ==
    [pc |-> "readStdout", run |-> run,
     stdoutLeft |-> run.stdout, stderrLeft |-> IF run.stderr # "" THEN 1 ELSE 0,
     stdoutClosed |-> FALSE, stderrClosed |-> FALSE,
     exited |-> FALSE, killed |-> FALSE, exitCode |-> 0,
     \* whether a listener for 'exit' is registered, and how many 'exit' events
     \* were emitted with no listener
     listening |-> FALSE, unheard |-> 0,
     st |-> CodexStart, stderrBuf |-> "", result |-> CodexStart]

\* `new Promise((resolve) => child.on('exit', ...))` (models.ts 776): reached
\* once both pipes are read to their end
AwaitExit(c) == [c EXCEPT !.pc = "awaitExit", !.listening = TRUE]

\* the adapter after stdout ended (models.ts 768-776)
AfterStdout(c) == IF c.stderrClosed THEN AwaitExit(c) ELSE [c EXCEPT !.pc = "awaitStderr"]

\* the adapter resumed with the exit code (models.ts 776-784)
AfterExit(c, code) ==
    [c EXCEPT !.pc = "returned",
              !.result = IF ~c.st.hadError /\ code # 0
                         THEN [c.st EXCEPT
                                 !.events = Append(@, ErrorEvent(IF c.stderrBuf # ""
                                                                 THEN c.stderrBuf
                                                                 ELSE "Codex exited with code")),
                                 !.content = ""]
                         ELSE c.st]

NotCodex ==
    <<aggVars, streamVars, conversationHistory, model, toolMap, apiToolMap, inv, toolBudget,
      served, envVars, toolVars, chatVars>>

\* stdout delivers one more line to readStream (models.ts 731-755)
CodexStdoutLine ==
    /\ codex.pc = "readStdout"
    /\ codex.stdoutLeft # <<>>
    /\ codex' = [codex EXCEPT !.stdoutLeft = Tail(@),
                              !.st = handleEvent(@, Head(codex.stdoutLeft))]
    /\ UNCHANGED NotCodex

\* stdout ends: the loop over stdoutGen is left and stderrPromise awaited
\* (models.ts 768-773)
CodexStdoutEnd ==
    /\ codex.pc = "readStdout"
    /\ codex.stdoutLeft = <<>>
    /\ codex' = AfterStdout([codex EXCEPT !.stdoutClosed = TRUE])
    /\ UNCHANGED NotCodex

\* stderr delivers its text (models.ts 734-737)
CodexStderrChunk ==
    /\ codex.pc \in {"readStdout", "awaitStderr"}
    /\ ~codex.stderrClosed
    /\ codex.stderrLeft > 0
    /\ codex' = [codex EXCEPT !.stderrLeft = @ - 1, !.stderrBuf = codex.run.stderr]
    /\ UNCHANGED NotCodex

\* stderr ends: stderrPromise resolves (models.ts 761-765, 773)
CodexStderrEnd ==
    /\ codex.pc \in {"readStdout", "awaitStderr"}
    /\ ~codex.stderrClosed
    /\ codex.stderrLeft = 0
    /\ codex' = LET c == [codex EXCEPT !.stderrClosed = TRUE]
                IN  IF codex.pc = "awaitStderr" THEN AwaitExit(c) ELSE c
    /\ UNCHANGED NotCodex

\* the signal fires: onAbort sends SIGTERM to the child (models.ts 686-692);
\* what the child had not written yet is never written
CodexKill ==
    /\ codex.pc \in {"readStdout", "awaitStderr", "awaitExit"}
    /\ ~codex.exited
    /\ ~codex.killed
    /\ \E left \in {codex.stdoutLeft, <<>>} :
          codex' = [codex EXCEPT !.killed = TRUE, !.stdoutLeft = left]
    /\ UNCHANGED NotCodex

\* the child process ends and 'exit' is emitted once, with the exit code or,
\* after a signal, with null, which the listener reads as 0 (models.ts 776);
\* with no listener registered the event is heard by nobody
CodexExit ==
    /\ codex.pc \in {"readStdout", "awaitStderr", "awaitExit"}
    /\ ~codex.exited
    /\ LET code == IF codex.killed THEN 0 ELSE codex.run.exitCode
           c    == [codex EXCEPT !.exited = TRUE, !.exitCode = code]
       IN  codex' = IF codex.listening
                    THEN AfterExit(c, code)
                    ELSE [c EXCEPT !.unheard = @ + 1]
    /\ UNCHANGED NotCodex

CodexNext ==
    \/ CodexStdoutLine
    \/ CodexStdoutEnd
    \/ CodexStderrChunk
    \/ CodexStderrEnd
    \/ CodexKill
    \/ CodexExit

-----------------------------------------------------------------------------
(* Specifications *)

\* bound: tool-calling responses the backend gives to a single invocation
MaxToolResponses == 6

\* bound: tool-calling responses the backend gives to two overlapping invocations
MaxOverlapToolResponses == 0

\* bound: tool-calling responses the backend gives in a run of SpecOverlap
MaxRaceToolResponses == 1

\* a run has one invocation with a backend that can keep calling tools, or two
\* invocations that may overlap
Scenarios ==
    { [live |-> {1}, toolBudget |-> MaxToolResponses],
      [live |-> Invocations, toolBudget |-> MaxOverlapToolResponses] }

AggStart ==
    /\ toolCallsByIndex = <<>>
    /\ fragLog = <<>>
    /\ aggPc = "merging"
    /\ aggFinal = <<>>
    /\ nonStreamInput = <<>>

StreamIdle ==
    /\ stream = StreamStart
    /\ linesRead = 0

\* the tool layer after construction: nothing cached, listed or called
ToolLayerStart ==
    /\ mcpClients = {}
    /\ clients = <<>>
    /\ listing = ListingIdle
    /\ exec = NoExec
    /\ closer = CloserIdle
    /\ synthesized = {}
    /\ ops = [calls |-> 0, disposed |-> 0]

\* a chat() call not yet made
IdleChat == [pc |-> "idle", message |-> "", tail |-> <<>>]

\* no chat() call made, no controller stored
ChatStart ==
    /\ currentAbortController = 0
    /\ chat = [i \in Invocations |-> IdleChat]
    /\ forceAborts = 0

\* no call of the subprocess adapter is being followed
CodexIdle == CodexSpawned(CodexRun(<<>>, "", 0))

\* the runtime after construction and setSourceServers, no invocation made
RuntimeStart ==
    /\ conversationHistory = <<>>
    /\ toolMap = {}
    /\ apiToolMap = {}
    /\ inv = [i \in Invocations |-> IdleInvocation]
    /\ servers = SourceConfig(<<McpSlug>>, <<ApiSlug>>, <<>>)
    /\ ToolLayerStart
    /\ codex = [CodexIdle EXCEPT !.pc = "idle"]
    /\ ChatStart

Init ==
    /\ AggStart
    /\ StreamIdle
    /\ RuntimeStart
    /\ model \in Models
    /\ credential \in IF isOpenAIModel(model) THEN {undefined} ELSE {undefined, "sk-or-key"}
    /\ codexAuthFile \in IF isOpenAIModel(model) THEN BOOLEAN ELSE {FALSE}
    /\ \E sc \in Scenarios : live = sc.live /\ toolBudget = sc.toolBudget
    /\ served = 0

\* two invocations that may overlap, on a backend that calls tools
InitOverlap ==
    /\ AggStart
    /\ StreamIdle
    /\ RuntimeStart
    /\ model \in Models
    /\ credential \in IF isOpenAIModel(model) THEN {undefined} ELSE {"sk-or-key"}
    /\ codexAuthFile = isOpenAIModel(model)
    /\ live = Invocations
    /\ toolBudget = MaxRaceToolResponses
    /\ served = 0

\* the transport and the aggregator on their own: no invocation is made
InitTransport ==
    /\ AggStart
    /\ StreamIdle
    /\ RuntimeStart
    /\ model = RouterModel
    /\ credential = "sk-or-key"
    /\ codexAuthFile = FALSE
    /\ live = {}
    /\ toolBudget = 0
    /\ served = 0

\* the tool layer on its own: the caller has set one of the source
\* configurations and makes no invocation
InitTools ==
    /\ AggStart
    /\ StreamIdle
    /\ conversationHistory = <<>>
    /\ toolMap = {}
    /\ apiToolMap = {}
    /\ inv = [i \in Invocations |-> IdleInvocation]
    /\ servers \in SourceConfigs
    /\ ToolLayerStart
    /\ codex = [CodexIdle EXCEPT !.pc = "idle"]
    /\ ChatStart
    /\ model = RouterModel
    /\ credential = "sk-or-key"
    /\ codexAuthFile = FALSE
    /\ live = {}
    /\ toolBudget = 0
    /\ served = 0

Next ==
    \E i \in Invocations :
        \/ Start(i)
        \/ AfterSkills(i)
        \/ CodexSettle(i)
        \/ AfterKey(i)
        \/ ToolDefsDone(i)
        \/ HttpAbort(i)
        \/ HttpSettle(i)
        \/ ToolDispatch(i)
        \/ ToolSettle(i)
        \/ ToolResume(i)
        \/ Abort(i)

Spec == Init /\ [][Next]_vars

SpecOverlap == InitOverlap /\ [][Next]_vars

\* every awaited promise settles and the consumer keeps iterating the generator:
\* a step that can be taken is eventually taken
SpecLive == Init /\ [][Next]_vars /\ WF_vars(Next)

SpecAgg == InitTransport /\ [][AggNext]_vars

SpecStream == InitTransport /\ [][StreamNext]_vars

SpecTools == InitTools /\ [][ToolsNext]_vars

\* the adapter is called on a direct model and the child runs one of the runs
InitCodex ==
    /\ AggStart
    /\ StreamIdle
    /\ conversationHistory = <<>>
    /\ toolMap = {}
    /\ apiToolMap = {}
    /\ inv = [i \in Invocations |-> IdleInvocation]
    /\ servers = SourceConfig(<<McpSlug>>, <<ApiSlug>>, <<>>)
    /\ ToolLayerStart
    /\ codex \in { CodexSpawned(run) : run \in CodexRuns }
    /\ ChatStart
    /\ model = CodexModel
    /\ credential = undefined
    /\ codexAuthFile = TRUE
    /\ live = {}
    /\ toolBudget = 0
    /\ served = 0

\* one chat() call on a backend that can keep calling tools, or two chat()
\* calls that may overlap; a router key is stored and a Codex login exists
InitChat ==
    /\ AggStart
    /\ StreamIdle
    /\ RuntimeStart
    /\ model \in Models
    /\ credential = "sk-or-key"
    /\ codexAuthFile = TRUE
    /\ \E sc \in Scenarios : live = sc.live /\ toolBudget = sc.toolBudget
    /\ served = 0

SpecChat == InitChat /\ [][ChatNext]_vars

\* bound: tool-calling responses the backend gives in a run of SpecSetModel
MaxSetModelToolResponses == 2

\* one invocation, a router key stored and a Codex login, the model set to
\* either backend when the runtime was built
InitSetModel ==
    /\ AggStart
    /\ StreamIdle
    /\ RuntimeStart
    /\ model \in Models
    /\ credential = "sk-or-key"
    /\ codexAuthFile = TRUE
    /\ live = {1}
    /\ toolBudget = MaxSetModelToolResponses
    /\ served = 0

SpecSetModel == InitSetModel /\ [][SetModelNext]_vars

SpecCodex == InitCodex /\ [][CodexNext]_vars

\* the pipes deliver what was written and close, a process that was started
\* ends, and the adapter runs on when what it awaits has settled
SpecCodexLive == InitCodex /\ [][CodexNext]_vars /\ WF_vars(CodexNext)

-----------------------------------------------------------------------------
(* Properties *)

IsTextDelta(e) == e.type = "text_delta"
IsErrorEvent(e) == e.type = "error"
IsToolEvent(e) == e.type \in {"tool_start", "tool_result"}
IsToolMessage(m) == m.role = "tool"

Last(s) == s[Len(s)]

IsPrefix(s, t) == Len(s) <= Len(t) /\ SubSeq(t, 1, Len(s)) = s

RECURSIVE ConcatText(_)
\* the texts of a sequence of events, joined in order
ConcatText(evs) == IF evs = <<>> THEN "" ELSE Head(evs).text \o ConcatText(Tail(evs))

ErrorEvents(i) == SelectSeq(inv[i].events, IsErrorEvent)
ToolEvents(i) == SelectSeq(inv[i].events, IsToolEvent)
InToolLoop(i) == inv[i].pc \in {"toolStart", "toolExec", "toolResult"}

\* C1: an invocation never sends a 6th request, and one whose every request
\* was answered with tool calls ends after exactly 5 requests with exactly one
\* error event, the overflow message, as its last event.
C1_RoundBound ==
    \A i \in Invocations :
        /\ inv[i].modelCalls <= 5
        /\ (inv[i].pc = "done" /\ inv[i].modelCalls > 0
                /\ inv[i].toolRounds = inv[i].modelCalls) =>
              /\ inv[i].modelCalls = 5
              /\ ErrorEvents(i) = <<ErrorEvent(OverflowMessage)>>
              /\ Last(inv[i].events) = ErrorEvent(OverflowMessage)

\* C1 happens: five requests, five answers with tool calls, the overflow error
C1_Witness ==
    \E i \in Invocations :
        /\ inv[i].pc = "done"
        /\ inv[i].modelCalls = 5
        /\ inv[i].toolRounds = 5
        /\ Last(inv[i].events) = ErrorEvent(OverflowMessage)

\* the tool messages of the history that answer calls of invocation i
ToolMessagesOf(i) ==
    SelectSeq(conversationHistory,
              LAMBDA m : IsToolMessage(m)
                           /\ \E k \in 1..Len(inv[i].calls) :
                                 inv[i].calls[k].id = m.tool_call_id)

\* C2: the tool events of an invocation are tool_start(c1), tool_result(c1),
\* tool_start(c2), tool_result(c2), ... over the calls the model returned, in
\* call order, and the tool messages of the history follow the same order (for
\* a sole invocation they are exactly the answered calls so far).
C2_SequentialToolOrdering ==
    \A i \in Invocations :
        LET T == ToolEvents(i)
            C == inv[i].calls
            H == ToolMessagesOf(i)
            answered == Len(T) \div 2 - (IF inv[i].pc = "toolResult" THEN 1 ELSE 0)
        IN  /\ Len(T) <= 2 * Len(C)
            /\ \A k \in 1..Len(T) :
                 LET c == C[(k + 1) \div 2]
                 IN  /\ T[k].toolUseId = c.id
                     /\ IF k % 2 = 1
                        THEN T[k].type = "tool_start" /\ T[k].toolName = c.name
                        ELSE T[k].type = "tool_result"
            /\ \A a, b \in 1..Len(H) : \A ka, kb \in 1..Len(C) :
                 (a < b /\ C[ka].id = H[a].tool_call_id /\ C[kb].id = H[b].tool_call_id)
                    => ka < kb
            /\ live = {i} =>
                 /\ Len(H) = answered
                 /\ \A k \in 1..Len(H) : H[k].tool_call_id = C[k].id

\* C2 happens: a round of two tool calls has been run to its end
C2_Witness ==
    \E i \in Invocations :
        /\ inv[i].pc = "toolDefs"
        /\ Len(inv[i].toolCalls) = 2
        /\ Len(ToolEvents(i)) >= 4
        /\ Len(conversationHistory) >= 2
        /\ Last(conversationHistory).tool_call_id = inv[i].toolCalls[2].id
        /\ conversationHistory[Len(conversationHistory) - 1].tool_call_id
              = inv[i].toolCalls[1].id

\* every call whose execution threw has a tool_result event flagged isError,
\* and outside the tool loop every call returned so far was started and answered
C3_FailureAnnounced ==
    \A i \in Invocations :
        /\ \A id \in inv[i].threw :
             \E k \in 1..Len(inv[i].events) :
                 /\ inv[i].events[k].type = "tool_result"
                 /\ inv[i].events[k].toolUseId = id
                 /\ inv[i].events[k].isError
                 /\ inv[i].events[k].text = "error message"
        /\ ~InToolLoop(i) => Len(ToolEvents(i)) = 2 * Len(inv[i].calls)

\* the step after a tool_result appends the tool message of the call, with the
\* error text if the call threw, and goes on to the next call of the round, or
\* after the last one to the next request (to the overflow error at the cap)
C3_FailureRecorded ==
    \A i \in Invocations :
        (inv[i].pc = "toolResult" /\ inv'[i].pc # "toolResult") =>
            LET id == inv[i].toolCalls[inv[i].pos].id
            IN  /\ conversationHistory' =
                       Append(conversationHistory,
                              ToolMessage(id, IF id \in inv[i].threw
                                              THEN "error message" ELSE "result"))
                /\ inv'[i].pc = IF inv[i].pos < Len(inv[i].toolCalls) THEN "toolStart"
                                ELSE IF inv[i].round + 1 < 5 THEN "toolDefs"
                                ELSE "done"

\* C3: a tool call that throws (unknown name, handler or remote call) yields a
\* tool_result with isError for its id and a tool message with the error text;
\* the remaining calls of the round are run and the next request follows.
C3_FailingToolNeverAborts == [][C3_FailureRecorded]_vars /\ []C3_FailureAnnounced

\* C3 happens: a call threw, its error is in the history, and the invocation
\* has sent its next request
C3_Witness ==
    \E i \in Invocations :
        /\ inv[i].pc = "fetch"
        /\ inv[i].modelCalls >= 2
        /\ \E id \in inv[i].threw :
             \E k \in 1..Len(conversationHistory) :
                 conversationHistory[k] = ToolMessage(id, "error message")

\* C4: an invocation that met a terminal failure has returned, and its events
\* hold exactly one error event.
C4_UniformTerminalFailure ==
    \A i \in Invocations :
        (inv[i].failure # "none" /\ inv[i].pc \in {"done", "thrown"}) =>
            /\ inv[i].pc = "done"
            /\ Len(ErrorEvents(i)) = 1

\* C5: an invocation whose signal fired before the first byte of its first
\* response has emitted no text_delta and no exception leaves it.
C5_CancellationBeforeFirstByte ==
    \A i \in Invocations :
        (inv[i].failure = "abort" /\ inv[i].modelCalls = 1) =>
            /\ inv[i].pc # "thrown"
            /\ SelectSeq(inv[i].events, IsTextDelta) = <<>>

\* C6: on the router backend without a credential an invocation sends no
\* request, lists no tools, runs no tool, and ends with exactly one error event.
C6_AuthShortCircuit ==
    \A i \in live :
        (~isOpenAIModel(model) /\ ~Truthy(credential)) =>
            /\ inv[i].modelCalls = 0
            /\ inv[i].defCalls = 0
            /\ inv[i].toolRuns = 0
            /\ inv[i].pc \in {"idle", "skills", "getKey", "done"}
            /\ inv[i].events =
                  IF inv[i].pc = "done"
                  THEN <<ErrorEvent("No OpenRouter API key configured")>>
                  ELSE <<>>

\* C6 happens: an invocation on the router without a credential has ended
C6_Witness ==
    /\ ~isOpenAIModel(model)
    /\ ~Truthy(credential)
    /\ inv[1].pc = "done"
    /\ Len(ErrorEvents(1)) = 1

\* C7: every step leaves the previous history as a prefix of the new one.
C7_HistoryAppendOnly == [][IsPrefix(conversationHistory, conversationHistory')]_vars

\* C8: when the streaming transport returns its aggregate, the texts of the
\* text_delta events it emitted, joined in emission order, are the aggregate's
\* content.
C8_DeltaConcatenation ==
    stream.status = "returned" =>
        ConcatText(SelectSeq(stream.events, IsTextDelta)) = stream.result.content

\* C8 happens: a stream of two text chunks, one of them next to tool-call
\* fragments, has returned
C8_Witness ==
    /\ stream.status = "returned"
    /\ Len(SelectSeq(stream.events, IsTextDelta)) >= 2
    /\ stream.result.content = "He!"
    /\ stream.toolCallsByIndex # <<>>

\* the fragments met so far for index i, in arrival order
FragsAt(i) == SelectSeq(fragLog, LAMBDA f : f.index = i)

RECURSIVE LastSupplied(_, _)
\* the last non-empty value of a sequence of optional strings, else `none`
LastSupplied(vals, none) ==
    IF vals = <<>> THEN none
    ELSE IF Truthy(Last(vals)) THEN Last(vals)
    ELSE LastSupplied(SubSeq(vals, 1, Len(vals) - 1), none)

RECURSIVE ConcatSupplied(_)
\* the supplied values of a sequence of optional strings, joined in order
ConcatSupplied(vals) ==
    IF vals = <<>> THEN ""
    ELSE (IF Truthy(Head(vals)) THEN Head(vals) ELSE "") \o ConcatSupplied(Tail(vals))

\* C9: after any sequence of fragments the map holds one partial call for each
\* index met; its id is the last non-empty id supplied for the index, or
\* "toolcall_" + index if none was, its name the last non-empty name supplied,
\* its arguments all argument fragments of the index joined in arrival order.
C9_FragmentMerging ==
    /\ DOMAIN toolCallsByIndex = { fragLog[k].index : k \in 1..Len(fragLog) }
    /\ \A i \in DOMAIN toolCallsByIndex :
         LET fs == FragsAt(i)
         IN  /\ toolCallsByIndex[i].id =
                    LastSupplied([k \in 1..Len(fs) |-> fs[k].id], DefaultToolCallId(i))
             /\ toolCallsByIndex[i].name =
                    LastSupplied([k \in 1..Len(fs) |-> fs[k].name], "")
             /\ toolCallsByIndex[i].arguments =
                    ConcatSupplied([k \in 1..Len(fs) |-> fs[k].arguments])

\* the indexes for which some fragment supplied a name
NamedIndexes ==
    { i \in Indexes : \E k \in 1..Len(fragLog) :
                          fragLog[k].index = i /\ Truthy(fragLog[k].name) }

\* the positions of message.tool_calls that carry a name
NamedPositions == { k \in 1..Len(nonStreamInput) : Truthy(nonStreamInput[k].name) }

\* f lists all of S in ascending order
IsAscendingListOf(f, S) ==
    /\ Len(f) = Cardinality(S)
    /\ \A k \in 1..Len(f) : f[k] \in S
    /\ \A a, b \in 1..Len(f) : a < b => f[a] < f[b]

\* C10: the finalized list holds the aggregated entry of every index for which
\* a fragment supplied a name, and of no other index, in ascending index order;
\* the non-stream fallback keeps the named entries of message.tool_calls, and no
\* other, in their order.
C10_Finalization ==
    /\ aggPc = "finalized" =>
         \E f \in [1..Len(aggFinal) -> Indexes] :
             /\ IsAscendingListOf(f, NamedIndexes)
             /\ \A k \in 1..Len(aggFinal) : aggFinal[k] = toolCallsByIndex[f[k]]
    /\ aggPc = "nonstream" =>
         \E f \in [1..Len(aggFinal) -> 1..Len(nonStreamInput)] :
             /\ IsAscendingListOf(f, NamedPositions)
             /\ \A k \in 1..Len(aggFinal) : aggFinal[k].name = nonStreamInput[f[k]].name

\* C10 happens: fragments arrived with the higher index first, one index never
\* got a name, and the list was finalized
C10_Witness ==
    /\ aggPc = "finalized"
    /\ Len(fragLog) = 3
    /\ fragLog[1].index > fragLog[2].index
    /\ Len(aggFinal) = 2
    /\ Cardinality(DOMAIN toolCallsByIndex) = 3

\* C11: the finalized tool calls of one model call, on the streaming path and
\* on the non-stream fallback, have pairwise different ids.
C11_UniqueToolCallIds ==
    aggPc \in {"finalized", "nonstream"} =>
        \A a, b \in 1..Len(aggFinal) : a # b => aggFinal[a].id # aggFinal[b].id

\* the state of the orchestrator an invocation record is in
Phase(me) ==
    IF me.pc = "idle" THEN "Idle"
    ELSE IF me.pc \in {"skills", "getKey", "codex", "toolDefs", "fetch"} THEN "Streaming"
    ELSE IF me.pc \in {"toolStart", "toolExec", "toolResult"} THEN "ToolExecuting"
    ELSE IF me.pc = "done" /\ SelectSeq(me.events, IsErrorEvent) = <<>> THEN "Complete"
    ELSE "Error"

Terminal(me) == Phase(me) \in {"Complete", "Error"}

\* one step of an invocation follows the state machine: a terminal state is
\* never left, tools are entered only from a model call that returned tool
\* calls, a request is sent only while streaming and a tool run only while
\* executing tools
C12_Transition ==
    \A i \in Invocations :
        LET p == Phase(inv[i])
            q == Phase(inv'[i])
        IN  /\ Terminal(inv[i]) => inv'[i] = inv[i]
            /\ p = "Idle" => q \in {"Idle", "Streaming"}
            /\ p = "Streaming" => q \in {"Streaming", "ToolExecuting", "Complete", "Error"}
            /\ p = "ToolExecuting" => q \in {"ToolExecuting", "Streaming", "Error"}
            /\ (p # "ToolExecuting" /\ q = "ToolExecuting") =>
                  /\ inv[i].pc = "fetch"
                  /\ Last(conversationHistory').role = "assistant"
                  /\ Last(conversationHistory').tool_calls # <<>>
                  /\ inv'[i].toolCalls = Last(conversationHistory').tool_calls
            /\ inv'[i].modelCalls > inv[i].modelCalls => p = "Streaming" /\ q = "Streaming"
            /\ inv'[i].toolRuns > inv[i].toolRuns => p = "ToolExecuting" /\ q = "ToolExecuting"

C12_AtMostFiveCalls == \A i \in Invocations : inv[i].modelCalls <= 5

C12_AllTerminal == \A i \in live : Terminal(inv[i])

\* C12: an invocation moves Idle -> Streaming -> (ToolExecuting -> Streaming)*
\* -> Complete | Error, runs a tool only after a model call that returned tool
\* calls, sends at most 5 requests, and every invocation made eventually
\* reaches a terminal state, which it never leaves.
C12_StateMachine ==
    /\ [][C12_Transition]_vars
    /\ []C12_AtMostFiveCalls
    /\ <>C12_AllTerminal

\* C12 happens: an invocation went through a tool round and completed
C12_Witness ==
    \E i \in Invocations :
        /\ Phase(inv[i]) = "Complete"
        /\ inv[i].modelCalls >= 2
        /\ inv[i].toolRuns >= 1

\* the step in which a model call of invocation i returns its aggregate
ModelCallReturns(i) == inv[i].pc = "fetch" /\ inv'[i].pc \in {"done", "toolStart"}

\* the events invocation i emits in the step
NewEvents(i) == SubSeq(inv'[i].events, Len(inv[i].events) + 1, Len(inv'[i].events))

\* N holds one text_complete, flagged `intermediate`, after text_delta events
\* only and before tool_start events only
HasTextComplete(N, intermediate) ==
    \E k \in 1..Len(N) :
        /\ N[k].type = "text_complete"
        /\ N[k].isIntermediate = intermediate
        /\ \A j \in 1..(k - 1) : N[j].type = "text_delta"
        /\ \A j \in (k + 1)..Len(N) : N[j].type = "tool_start"

\* C13 as stated: every model call that returns is followed by a text_complete,
\* after its text_delta events and before any tool_start, with isIntermediate
\* telling whether the call returned tool calls.
C13_TextCompleteEveryCall ==
    [][\A i \in Invocations :
          ModelCallReturns(i) =>
              HasTextComplete(NewEvents(i), Last(conversationHistory').has_tool_calls)]_vars

\* C13 amended: a model call that returns non-empty text is followed by one
\* text_complete carrying that text, after its text_delta events and before any
\* tool_start, with isIntermediate telling whether the call returned tool
\* calls; a call that returns empty text is followed by no text_complete.
C13_TextCompleteIfText ==
    [][\A i \in Invocations :
          ModelCallReturns(i) =>
              LET N    == NewEvents(i)
                  said == Last(conversationHistory')
              IN  IF said.content # ""
                  THEN /\ HasTextComplete(N, said.has_tool_calls)
                       /\ \A k \in 1..Len(N) :
                            N[k].type = "text_complete" => N[k].text = said.content
                  ELSE \A k \in 1..Len(N) : N[k].type = "tool_start"]_vars

\* C13 happens: text was streamed, completed as intermediate, and the first
\* tool call of the round announced
C13_Witness ==
    \E i \in Invocations : \E k \in 2..(Len(inv[i].events) - 1) :
        /\ inv[i].events[k - 1].type = "text_delta"
        /\ inv[i].events[k].type = "text_complete"
        /\ inv[i].events[k].isIntermediate
        /\ inv[i].events[k + 1].type = "tool_start"

\* the position of the nearest assistant message before position k, 0 if none
NearestAssistantBefore(k) ==
    LET before == { j \in 1..(k - 1) : conversationHistory[j].role = "assistant" }
    IN  IF before = {} THEN 0 ELSE CHOOSE j \in before : \A x \in before : x <= j

\* C14: an assistant message carries tool_calls only as a non-empty list; every
\* tool message answers a call listed in the nearest assistant message before
\* it; and once no invocation is inside a tool round, an assistant message with
\* k tool calls is followed by exactly k tool messages, one per call, in order.
C14_HistoryShape ==
    LET H == conversationHistory
    IN  /\ \A k \in 1..Len(H) :
             (H[k].role = "assistant" /\ H[k].has_tool_calls) => H[k].tool_calls # <<>>
        /\ \A k \in 1..Len(H) :
             H[k].role = "tool" =>
                 LET j == NearestAssistantBefore(k)
                 IN  /\ j > 0
                     /\ \E c \in 1..Len(H[j].tool_calls) :
                            H[j].tool_calls[c].id = H[k].tool_call_id
        /\ (\A i \in Invocations : ~InToolLoop(i)) =>
             \A j \in 1..Len(H) :
                 (H[j].role = "assistant" /\ H[j].has_tool_calls) =>
                     LET n == Len(H[j].tool_calls)
                     IN  /\ j + n <= Len(H)
                         /\ \A c \in 1..n :
                              /\ H[j + c].role = "tool"
                              /\ H[j + c].tool_call_id = H[j].tool_calls[c].id
                         /\ j + n < Len(H) => H[j + n + 1].role # "tool"

IsSystemMessage(m) == m.role = "system"

\* the history holds no system message
C15_NoSkillInHistory == SelectSeq(conversationHistory, IsSystemMessage) = <<>>

\* the step that sends a request: in round 0 it carries the history as it was
\* when sendMessage was called, the skill messages of the mentions and the user
\* message; in a later round it carries the live history
C15_RequestMessages ==
    \A i \in Invocations :
        (inv[i].pc = "toolDefs" /\ inv'[i].pc = "fetch") =>
            inv'[i].request =
                IF inv[i].round = 0
                THEN inv[i].baseHistory
                        \o buildSkillSystemMessagesFromMentions(inv[i].input)
                        \o <<UserMessage(inv[i].input.text)>>
                ELSE conversationHistory

\* C15: no skill message is ever in the history; the request of round 0 is the
\* history before the call, the skill messages and the user message; the request
\* of every later round is the live history.
C15_EphemeralSkills == []C15_NoSkillInHistory /\ [][C15_RequestMessages]_vars

\* C15 happens: an invocation that mentioned a skill sent it in round 0 and has
\* sent the request of a later round without it
C15_Witness ==
    \E i \in Invocations :
        /\ inv[i].pc = "fetch"
        /\ inv[i].round >= 1
        /\ SelectSeq(inv[i].firstRoundMessages, IsSystemMessage) # <<>>
        /\ SelectSeq(inv[i].request, IsSystemMessage) = <<>>
        /\ inv[i].request = conversationHistory

\* C16: an invocation looks up no credential, lists no tools, sends no request
\* and spawns no subprocess before its user message is in the history, and the
\* user message is in the history at every later step.
C16_UserMessageFirst ==
    \A i \in Invocations :
        /\ inv[i].pc \in {"idle", "skills"} =>
              /\ inv[i].defCalls = 0
              /\ inv[i].modelCalls = 0
              /\ inv[i].events = <<>>
        /\ inv[i].pc \notin {"idle", "skills"} =>
              \E k \in 1..Len(conversationHistory) :
                  conversationHistory[k] = UserMessage(inv[i].input.text)

\* the ways the model-call transport fails: non-2xx status, missing body,
\* unparsable non-stream body, error chunk in the stream
TransportFailures == {"status", "nobody", "badjson", "sse"}

IsAssistantMessage(m) == m.role = "assistant"

\* an invocation whose transport failed has ended with the error; if it is the
\* only invocation, the history is its user message, one assistant message for
\* each earlier model call and one tool message for each tool call, no more
C17_FailedState ==
    \A i \in Invocations :
        inv[i].failure \in TransportFailures =>
            /\ inv[i].pc = "thrown"
            /\ live = {i} =>
                 /\ conversationHistory[1] = UserMessage(inv[i].input.text)
                 /\ Len(SelectSeq(conversationHistory, IsAssistantMessage))
                        = inv[i].modelCalls - 1
                 /\ Len(SelectSeq(conversationHistory, IsToolMessage)) = Len(inv[i].calls)
                 /\ Len(conversationHistory) = inv[i].modelCalls + Len(inv[i].calls)

\* the failing step leaves the history as it is, and the invocation takes no
\* step after it
C17_FailedStep ==
    \A i \in Invocations :
        /\ (inv[i].failure \notin TransportFailures
                /\ inv'[i].failure \in TransportFailures) =>
              conversationHistory' = conversationHistory
        /\ inv[i].failure \in TransportFailures => inv'[i] = inv[i]

C18_UniformIsError ==
    \A i \in Invocations :
        (inv[i].pc = "toolResult" /\ inv[i].flagged) =>
            /\ Last(inv[i].events).type = "tool_result"
            /\ Last(inv[i].events).toolUseId = inv[i].toolCalls[inv[i].pos].id
            /\ Last(inv[i].events).isError

IsDirect(i) == i \in live /\ isOpenAIModel(model)

\* C19 as stated: every invocation on the subprocess backend that has ended went
\* through the adapter exactly once, listed no tools, sent no request, ran no
\* tool and left an assistant message in the history.
C19_SinglePass ==
    \A i \in Invocations :
        (IsDirect(i) /\ inv[i].pc = "done") =>
            /\ inv[i].codexCalls = 1
            /\ Len(inv[i].codexRun) = 1
            /\ inv[i].defCalls = 0 /\ inv[i].modelCalls = 0 /\ inv[i].toolRuns = 0
            /\ ToolEvents(i) = <<>>
            /\ \E k \in DOMAIN conversationHistory :
                   IsAssistantMessage(conversationHistory[k])

\* on the subprocess backend an invocation never lists tools, sends a request or
\* runs a tool and never enters the round loop; with a Codex login it has called
\* the adapter once from the call on, without one it never calls it and ends
\* with the single login error
C19_DirectState ==
    \A i \in Invocations :
        IsDirect(i) =>
            /\ inv[i].pc \in {"idle", "skills", "codex", "done"}
            /\ inv[i].defCalls = 0 /\ inv[i].modelCalls = 0 /\ inv[i].toolRuns = 0
            /\ inv[i].round = 0
            /\ ToolEvents(i) = <<>>
            /\ served = 0
            /\ inv[i].codexCalls =
                   (IF codexAuthFile /\ inv[i].pc \in {"codex", "done"} THEN 1 ELSE 0)
            /\ Len(inv[i].codexRun) =
                   (IF codexAuthFile /\ inv[i].pc = "done" THEN 1 ELSE 0)
            /\ (inv[i].pc = "done" /\ ~codexAuthFile) =>
                   inv[i].events = <<ErrorEvent("No Codex login found")>>

\* the step on which the adapter returns ends the invocation and appends one
\* assistant message without tool calls whose content is the completed text,
\* or empty if no text was completed; the step that ends on the missing login
\* appends only the user message
C19_DirectStep ==
    \A i \in Invocations :
        /\ (IsDirect(i) /\ inv[i].pc = "codex" /\ inv'[i].pc # "codex") =>
              /\ inv'[i].pc = "done"
              /\ conversationHistory' =
                    Append(conversationHistory,
                           Message("assistant",
                                   IF inv'[i].events # <<>>
                                      /\ Last(inv'[i].events).type = "text_complete"
                                   THEN Last(inv'[i].events).text ELSE "",
                                   undefined, FALSE, <<>>))
        /\ (IsDirect(i) /\ inv[i].pc = "skills" /\ inv'[i].pc = "done") =>
              /\ ~codexAuthFile
              /\ Last(conversationHistory') = UserMessage(inv[i].input.text)

\* C19 (amended): on the subprocess backend with a Codex login present, one
\* invocation streams through the adapter exactly once, lists no tools, emits
\* no tool event, sends no request, never enters the round loop, and on the
\* adapter's return appends exactly one assistant message with the resulting
\* text and ends; without a login it ends with one error event, having called
\* the adapter zero times and appended no assistant message.
C19_SinglePassWithLogin == []C19_DirectState /\ [][C19_DirectStep]_vars

\* C19 happens: an invocation on the subprocess backend has ended after one run
\* of the child process, its text completed and pushed
C19_Witness ==
    \E i \in Invocations :
        /\ IsDirect(i) /\ codexAuthFile
        /\ inv[i].pc = "done"
        /\ inv[i].codexCalls = 1
        /\ Len(inv[i].codexRun) = 1
        /\ inv[i].events # <<>>
        /\ conversationHistory # <<>>
        /\ Last(inv[i].events) = TextComplete("Hi", FALSE, undefined)
        /\ Last(conversationHistory) = Message("assistant", "Hi", undefined, FALSE, <<>>)

IsErrorLine(l) == l.t = "error"
ErrorLines(run) == SelectSeq(run.stdout, IsErrorLine)

RECURSIVE AssistantText(_)
\* the text of the assistant deltas of the stdout lines, joined in order
AssistantText(lines) ==
    IF lines = <<>> THEN ""
    ELSE (IF Head(lines).t = "assistant" THEN Head(lines).text ELSE "")
         \o AssistantText(Tail(lines))

\* the run ended with a non-zero exit code and no explicit error event
SilentFailure(run) == ErrorLines(run) = <<>> /\ run.exitCode # 0

\* after a run without explicit error and with a non-zero exit code the events
\* hold exactly one error event, the last of the adapter, with the stderr text
\* or the exit-code message, and no text is completed; after any other run
\* the error events are the explicit ones of the output, one for one
C20_ExitEvents ==
    \A i \in Invocations :
        (i \in live /\ inv[i].pc = "done" /\ inv[i].codexRun # <<>>) =>
            LET run  == Last(inv[i].codexRun)
                errs == ErrorEvents(i)
            IN  IF SilentFailure(run)
                THEN /\ Len(errs) = 1
                     /\ Last(inv[i].events) =
                           ErrorEvent(IF run.stderr # "" THEN run.stderr
                                      ELSE "Codex exited with code")
                     /\ \A k \in DOMAIN inv[i].events :
                           inv[i].events[k].type # "text_complete"
                ELSE /\ Len(errs) = Len(ErrorLines(run))
                     /\ \A k \in DOMAIN errs : errs[k].text = ErrorLines(run)[k].text

\* the content the adapter returns, which the caller pushes on that step, is
\* empty after a run without explicit error and with a non-zero exit code and
\* the accumulated text after any other run
C20_ExitContent ==
    \A i \in Invocations :
        (i \in live /\ inv[i].pc = "codex" /\ inv'[i].pc = "done") =>
            LET run == Last(inv'[i].codexRun)
            IN  Last(conversationHistory').content =
                    (IF SilentFailure(run) THEN "" ELSE AssistantText(run.stdout))

\* C20: when the output of the child process has closed, the adapter emits one
\* synthesized error event and returns empty content, dropping the text
\* accumulated so far, if no explicit error event was emitted and the exit code
\* is non-zero; after an explicit error event or with exit code zero it
\* synthesizes no error event.
C20_SubprocessExitError == []C20_ExitEvents /\ [][C20_ExitContent]_vars

\* C20 happens: a run that had streamed text ended with a non-zero exit code
\* and no explicit error, and the invocation has ended on the synthesized error
C20_Witness ==
    \E i \in Invocations :
        /\ i \in live /\ inv[i].pc = "done" /\ inv[i].codexRun # <<>>
        /\ SilentFailure(Last(inv[i].codexRun))
        /\ AssistantText(Last(inv[i].codexRun).stdout) # ""
        /\ Last(inv[i].events) = ErrorEvent("boom")
        /\ Last(conversationHistory).content = ""

\* the position of the first error event among the events of an invocation
FirstErrorAt(i) == Min({k \in DOMAIN inv[i].events : IsErrorEvent(inv[i].events[k])})

\* C21: once a stdout line with an explicit error has become an error event,
\* the invocation emits no further text_delta, text_complete or error event:
\* that error event is the last of them in the events of the invocation.
C21_ExplicitErrorTerminal ==
    \A i \in Invocations :
        (i \in live /\ inv[i].codexRun # <<>>
                   /\ ErrorLines(Last(inv[i].codexRun)) # <<>>) =>
            \A k \in DOMAIN inv[i].events :
                k > FirstErrorAt(i) =>
                    inv[i].events[k].type \notin {"text_delta", "text_complete", "error"}

\* the identifier has a provider namespace
HasNamespace(m) == \E k \in DOMAIN m : m[k] = "/"

\* the transports that have served an invocation: the child process once the
\* adapter was called, the HTTP endpoint of the model once a request was sent
ServedBy(i) ==
    (IF inv[i].codexCalls > 0 THEN {"subprocess"} ELSE {})
    \cup (IF inv[i].modelCalls > 0
          THEN {IF getApiEndpoint(model) = "api.openai.com" THEN "direct" ELSE "router"}
          ELSE {})

\* C22: sendMessage serves an identifier with a bare model-family prefix and no
\* provider namespace by the direct-API HTTP transport and a namespaced
\* identifier by the router HTTP transport, and no invocation is served by two
\* transports.
C22_BackendSelection ==
    \A i \in Invocations :
        i \in live =>
            /\ Cardinality(ServedBy(i)) <= 1
            /\ HasNamespace(model) => ServedBy(i) \subseteq {"router"}
            /\ (~HasNamespace(model) /\ StartsWith(model, <<"g","p","t","-">>)) =>
                   ServedBy(i) \subseteq {"direct"}

\* sourceSlug + "__" + toolName
RawName(r) == r.sourceSlug \o <<"_","_">> \o r.toolName

\* C23: every synthesized name consists of characters of [A-Za-z0-9_-] only, is
\* at most 64 long, and is the first 64 characters of sourceSlug + "__" +
\* toolName with every other character replaced by "_"; the same pair always
\* gets the same name.
C23_NameSynthesis ==
    /\ \A r \in synthesized :
          /\ Len(r.name) <= 64
          /\ Len(r.name) = (IF Len(RawName(r)) < 64 THEN Len(RawName(r)) ELSE 64)
          /\ \A k \in DOMAIN r.name :
                /\ r.name[k] \in NameChars
                /\ r.name[k] = (IF RawName(r)[k] \in NameChars THEN RawName(r)[k] ELSE "_")
    /\ \A r1, r2 \in synthesized :
          (r1.sourceSlug = r2.sourceSlug /\ r1.toolName = r2.toolName) => r1.name = r2.name

\* C23 happens: a name was synthesized from a pair longer than 64 characters
\* with a disallowed character before the cut and one after it, and another
\* from a slug and a tool name that both hold a disallowed character
C23_Witness ==
    /\ \E r \in synthesized :
          /\ Len(RawName(r)) > 64
          /\ Len(r.name) = 64
          /\ \E k \in 1..64 : RawName(r)[k] \notin NameChars /\ r.name[k] = "_"
          /\ \E k \in 65..Len(RawName(r)) : RawName(r)[k] \notin NameChars
    /\ \E r \in synthesized :
          /\ r.sourceSlug = DottedSlug
          /\ r.toolName = SpacedTool
          /\ Str(r.name) = "my_src__list_all"

\* the entries of the two tables are tools enumerated in the current call
C24_OnlyEnumerated ==
    /\ \A e \in toolMap :
          \E l \in listing.listed :
              l.kind = "mcp" /\ l.slug = e.sourceSlug /\ e.tool \in l.tools
    /\ \A e \in apiToolMap :
          \E l \in listing.listed :
              l.kind = "api" /\ l.slug = e.sourceSlug /\ e.tool \in l.tools

\* when the call has returned, every tool of a listing that succeeded has its
\* entry in the table of its kind and its definition
C24_AllContributed ==
    listing.pc = "returned" =>
        \A l \in listing.listed :
            \A t \in l.tools :
                /\ toOpenAiToolName(l.slug, t) \in listing.defs
                /\ [name |-> toOpenAiToolName(l.slug, t), sourceSlug |-> l.slug, tool |-> t]
                       \in (IF l.kind = "mcp" THEN toolMap ELSE apiToolMap)

\* when the call has returned with the sources as they were at the call, every
\* active remote source has failed or has given its tools, and every active
\* in-process source with an instance has failed or has given its tools that
\* are not disabled
C24_EverySourceAsked ==
    (listing.pc = "returned" /\ ~listing.reconfigured) =>
        \A sl \in Elems(ActiveSlugs(servers)) :
            /\ sl \in Elems(servers.mcpServers) =>
                  \/ [slug |-> sl, kind |-> "mcp"] \in listing.failed
                  \/ Listed(sl, "mcp", ListedTools(sl)) \in listing.listed
            /\ (sl \in Elems(servers.apiServers) /\ HasInstance(sl)) =>
                  \/ [slug |-> sl, kind |-> "api"] \in listing.failed
                  \/ Listed(sl, "api", {t \in RegisteredTools(sl) : ToolEnabled(sl, t)})
                         \in listing.listed

\* C24: after each getToolDefinitions call the two tables hold entries only for
\* tools enumerated in that call, and a source whose listing fails loses only
\* its own tools: every other active source whose listing succeeds has all its
\* tools that are not disabled in the definitions and in the tables.
C24_RebuiltAndIsolated ==
    C24_OnlyEnumerated /\ C24_AllContributed /\ C24_EverySourceAsked

\* C24 happens: a call has returned in which the listing of a remote source
\* that an earlier call had listed failed, while another remote source and an
\* in-process source gave their tools
C24_Witness ==
    /\ listing.pc = "returned"
    /\ ~listing.reconfigured
    /\ \E f \in listing.failed :
          /\ f.kind = "mcp"
          /\ \E r \in synthesized : r.sourceSlug = f.slug
          /\ \A e \in toolMap : e.sourceSlug # f.slug
    /\ \E l \in listing.listed : l.kind = "mcp" /\ l.tools # {}
    /\ \E l \in listing.listed : l.kind = "api" /\ l.tools # {}
    /\ toolMap # {}
    /\ apiToolMap # {}

\* C25: executeToolCall looks a name up in the in-process table first and in the
\* remote table second: a name in the in-process table, in the remote one too or
\* not, goes to the in-process pathway and to no client; a name in the remote
\* table only goes to the client of its source and to no handler; a name in
\* neither fails with the unknown-tool error and invokes neither.
C25_ResolutionOrder ==
    exec.name # "" =>
        /\ exec.inApi =>
              /\ exec.target = "api"
              /\ exec.client = 0 /\ exec.remoteTool = <<>>
              /\ exec.error # "Unknown tool"
              /\ exec.handler # <<>> =>
                    Str(toOpenAiToolName(exec.handler[1], exec.handler[2])) = exec.name
        /\ (~exec.inApi /\ exec.inRemote) =>
              /\ exec.target = "mcp"
              /\ exec.handler = <<>>
              /\ exec.error # "Unknown tool"
              /\ exec.client # 0 =>
                    /\ Str(toOpenAiToolName(exec.remoteTool[1], exec.remoteTool[2]))
                          = exec.name
                    /\ clients[exec.client].slug = exec.remoteTool[1]
        /\ (~exec.inApi /\ ~exec.inRemote) =>
              /\ exec.error = "Unknown tool"
              /\ exec.handler = <<>>
              /\ exec.client = 0 /\ exec.remoteTool = <<>>

\* C25 happens: a name that both tables hold was called and its in-process
\* handler invoked
C25_Witness ==
    /\ exec.inApi /\ exec.inRemote
    /\ exec.handler = <<BothSlug, GetTool>>
    /\ exec.client = 0

\* of the clients constructed for one slug at most one has not been dropped
\* from the cache, and the cache holds exactly the clients not dropped
C26_OnePerSlug ==
    /\ \A a, b \in DOMAIN clients :
          (a # b /\ clients[a].slug = clients[b].slug) =>
              clients[a].evicted \/ clients[b].evicted
    /\ \A c \in mcpClients :
          /\ c.id \in DOMAIN clients
          /\ clients[c.id].slug = c.slug
          /\ ~clients[c.id].evicted
    /\ \A a \in DOMAIN clients :
          ~clients[a].evicted => [slug |-> clients[a].slug, id |-> a] \in mcpClients

\* a client is constructed only by a listing or an execution that uses it, one
\* at a time and for a slug without cached client; a listing or an execution
\* that needs the client of a slug with a cached client uses that client
C26_LazyAndReused ==
    /\ Len(clients') > Len(clients) =>
          /\ Len(clients') = Len(clients) + 1
          /\ CachedId(mcpClients, clients'[Len(clients')].slug) = 0
          /\ \/ listing' # listing /\ listing'.client = Len(clients')
             \/ exec' # exec /\ exec'.client = Len(clients')
    /\ (listing'.pc = "listTools" /\ (listing.pc # "listTools" \/ listing'.k # listing.k)) =>
          LET sl == listing'.activeSlugs[listing'.k]
          IN  /\ listing'.client # 0
              /\ clients'[listing'.client].slug = sl
              /\ CachedId(mcpClients, sl) \in {0, listing'.client}
    /\ (exec' # exec /\ exec'.client # 0) =>
          CachedId(mcpClients, exec'.remoteTool[1]) \in {0, exec'.client}

\* C26: remote-tool clients are constructed lazily, on the first use of a
\* source slug; between its construction and the clearing of the cache no
\* second client is constructed for the slug, and listings and executions, in
\* every round and every later call, use the cached client.
C26_ClientCache == []C26_OnePerSlug /\ [][C26_LazyAndReused]_vars

\* C26 happens: a listing waits on the client that an earlier listing
\* constructed and an execution has used since, and no slug has two clients
C26_Witness ==
    /\ ops.calls >= 3
    /\ listing.pc = "listTools"
    /\ listing.client # 0
    /\ exec.client = listing.client
    /\ \A a, b \in DOMAIN clients : clients[a].slug = clients[b].slug => a = b

\* C27: when a disposal of the runtime ends, by close() or by dispose(), close
\* has been invoked on every client constructed so far and the cache holds no
\* client.
C27_DisposalClosesClients ==
    [][ops'.disposed # ops.disposed =>
          /\ mcpClients' = {}
          /\ \A a \in DOMAIN clients' : clients'[a].closeCalls >= 1]_vars

\* the step flushes an SSE event whose payload is empty, the [DONE] sentinel or
\* not JSON
DropsEvent ==
    /\ stream.status = "reading"
    /\ stream.eventDataLines # <<>>
    /\ stream'.eventDataLines = <<>>
    /\ JoinedData(stream.eventDataLines).t # "json"

\* C28: an SSE event whose payload is not valid JSON, is empty or is the [DONE]
\* sentinel gives no event and no error and leaves the accumulated content, the
\* turn id and the tool-call aggregation as they were: while the stream goes
\* on, the transport is in the state it was in before the lines of the event
\* arrived, so what follows is processed as if the event had not been sent.
C28_MalformedDropped ==
    [][DropsEvent =>
          /\ stream'.events = stream.events
          /\ stream'.content = stream.content
          /\ stream'.turnId = stream.turnId
          /\ stream'.toolCallsByIndex = stream.toolCallsByIndex
          /\ stream'.status # "thrown"
          /\ stream'.error = ""
          /\ stream'.status = "reading" =>
                [stream' EXCEPT !.droppedAt = stream.droppedAt]
                    = [stream EXCEPT !.eventDataLines = <<>>]]_vars

\* C28 happens: the first event was dropped and the event after it has given
\* a text_delta and a tool-call fragment
C28_Witness ==
    /\ stream.droppedAt = 0
    /\ Len(stream.events) = 1
    /\ stream.toolCallsByIndex # <<>>
    /\ stream.status = "reading"

IsNotTextDelta(e) == ~IsTextDelta(e)

\* C30: when the response is not an event stream, the step that receives it
\* emits no text_delta, appends the assistant message built from the content
\* and the tool calls of choices[0].message and goes on with those tool calls
\* and the id of the body as turn id; apart from the text_delta events the
\* invocation is then in the state a streamed response with the same aggregate
\* leaves it in.
C30_NonStreamFallback ==
    [][\A i \in Invocations :
         (inv[i].pc = "fetch" /\ inv'[i].pc # "fetch" /\ inv'[i].respKind = "json") =>
            LET me  == inv[i]
                new == SubSeq(inv'[i].events, Len(me.events) + 1, Len(inv'[i].events))
            IN  /\ \A k \in DOMAIN new : new[k].type # "text_delta"
                /\ \E resp \in Responses(RequestSerial(i, me.round)) :
                      LET content   == Coalesce(resp.json.content, "")
                          toolCalls == NonStreamToolCalls(resp.json.tool_calls)
                      IN  /\ resp.kind = "json"
                          /\ conversationHistory' =
                                Append(conversationHistory,
                                       AssistantMessage(content, toolCalls))
                          /\ inv'[i].toolCalls = toolCalls
                          /\ inv'[i].turnId = resp.json.id
                          /\ \A sse \in Responses(RequestSerial(i, me.round)) :
                                LET rs   == callOpenRouterStream(sse)
                                    twin == AfterModelCall(
                                                [me EXCEPT !.events = @ \o rs.events],
                                                rs.result)
                                IN  (/\ sse.kind = "sse"
                                     /\ rs.status = "returned"
                                     /\ rs.result = [content |-> content,
                                                     toolCalls |-> toolCalls,
                                                     turnId |-> resp.json.id]) =>
                                    inv'[i] = [twin EXCEPT
                                        !.respKind = "json",
                                        !.events = me.events \o
                                            SelectSeq(SubSeq(@, Len(me.events) + 1, Len(@)),
                                                      IsNotTextDelta)]]_vars

\* C30 happens: the tool call of a response that was not streamed is being
\* executed, its text completed and no text_delta emitted
C30_Witness ==
    \E i \in Invocations :
        /\ inv[i].respKind = "json"
        /\ InToolLoop(i)
        /\ inv[i].toolRuns >= 1
        /\ inv[i].round = 0
        /\ \A k \in DOMAIN inv[i].events : inv[i].events[k].type # "text_delta"
        /\ \E k \in DOMAIN inv[i].events : inv[i].events[k].type = "text_complete"

\* the signal of invocation i fires in this step
SignalFires(i) == inv'[i].aborted /\ ~inv[i].aborted

\* invocation i, whose signal has fired, takes a step
StepAfterSignal(i) == inv[i].aborted /\ inv'[i] # inv[i]

\* the step in which the signal fires changes nothing but the signal
C31_FiringChangesNothing ==
    \A i \in Invocations :
        SignalFires(i) =>
            /\ conversationHistory' = conversationHistory
            /\ inv'[i].events = inv[i].events
            /\ inv'[i].pc = inv[i].pc
            /\ inv'[i].toolCalls = inv[i].toolCalls
            /\ inv'[i].pos = inv[i].pos

\* a step of a cancelled invocation keeps the events emitted so far, and the
\* history: it extends it, or, when it persists the user message, keeps the
\* history the invocation read when it was called
C31_NothingUndone ==
    \A i \in Invocations :
        StepAfterSignal(i) =>
            /\ IsPrefix(inv[i].events, inv'[i].events)
            /\ IF inv[i].pc = "skills"
               THEN IsPrefix(inv[i].baseHistory, conversationHistory')
               ELSE IsPrefix(conversationHistory, conversationHistory')

\* a tool call dispatched before or after the signal fired gets its tool_result
\* event and then its tool message
C31_DispatchedCompletes ==
    \A i \in Invocations :
        StepAfterSignal(i) =>
            LET me == inv[i]
            IN  /\ me.pc = "toolExec" =>
                      /\ inv'[i].pc = "toolResult"
                      /\ Len(inv'[i].events) = Len(me.events) + 1
                      /\ Last(inv'[i].events).type = "tool_result"
                      /\ Last(inv'[i].events).toolUseId = me.toolCalls[me.pos].id
                /\ me.pc = "toolResult" =>
                      conversationHistory' =
                          Append(conversationHistory,
                                 ToolMessage(me.toolCalls[me.pos].id, me.pending))

\* C31: cancellation does not roll back: the firing of the signal changes
\* neither the history nor the events, no later step of the cancelled invocation
\* removes a message or an event, and a tool call that was dispatched when the
\* signal fired still gets its tool_result event and its tool message.
C31_NoRollback ==
    [][C31_FiringChangesNothing /\ C31_NothingUndone /\ C31_DispatchedCompletes]_vars

\* C31 happens: the signal fired while a tool call was running, and the call
\* got its tool_result event and its tool message all the same
C31_Witness ==
    \E i \in Invocations :
        /\ inv[i].aborted
        /\ inv[i].abortAt.pc = "toolExec"
        /\ inv[i].pc \in {"toolDefs", "fetch", "thrown"}
        /\ conversationHistory # <<>>
        /\ Last(conversationHistory).role = "tool"
        /\ \E k \in DOMAIN inv[i].events : inv[i].events[k].type = "tool_result"

\* C32: all events of one model call carry the same turnId: once the transport
\* has returned, every text_delta it emitted carries the turnId of the aggregate,
\* which the orchestrator puts on text_complete, tool_start and tool_result,
\* also when the chunk id arrives on a later chunk only.
C32_TurnIdCorrelation ==
    stream.status = "returned" =>
        \A k \in DOMAIN stream.events :
            stream.events[k].turnId = stream.result.turnId

\* C33: once the child process has exited and both its output streams have
\* closed, the adapter eventually returns its final result, in whatever order
\* the exit and the closing of the streams happened.
C33_AdapterTerminates ==
    (codex.exited /\ codex.stdoutClosed /\ codex.stderrClosed) ~> (codex.pc = "returned")

\* chat() call i has been made and has not emitted complete yet
InFlight(i) == chat[i].pc = "delegating"

\* C34: forceAbort reaches the chat in flight: a call of forceAbort / stop fires
\* the signal of every chat() call that is in flight, also when two calls
\* overlap and one of them has finished.
C34_ForceAbortReachesChat ==
    [][forceAborts' # forceAborts =>
          \A i \in Invocations : InFlight(i) => inv'[i].aborted]_vars

\* C35: every request of an invocation goes to the endpoint of the backend that
\* was selected at its start, whatever setModel calls come in between, and the
\* router key resolved at the start is never sent to the direct-API endpoint.
C35_BackendFixedAtStart ==
    \A i \in Invocations :
        inv[i].modelCalls > 0 =>
            /\ inv[i].endpoint = getApiEndpoint(inv[i].selected)
            /\ ~(inv[i].endpoint = "api.openai.com" /\ inv[i].apiKey = credential)

\* C36: after getToolDefinitions has returned, and until the sources are set
\* anew, executing the synthesized name of a definition invokes the pair of
\* source and tool the definition was built from: the in-process handler of
\* that pair, or the remote tool of that pair; so no two pairs of one listing
\* share a synthesized name.
C36_DefinitionFidelity ==
    [][(exec' # exec /\ listing.pc = "returned" /\ ~listing.reconfigured) =>
          \A l \in listing.listed : \A t \in l.tools :
              Str(toOpenAiToolName(l.slug, t)) = exec'.name =>
                  IF l.kind = "api"
                  THEN exec'.handler = <<l.slug, t>>
                  ELSE exec'.remoteTool = <<l.slug, t>>]_vars

\* the events the consumer of chat() call i has received
ChatEvents(i) == inv[i].events \o chat[i].tail

IsCompleteEvent(e) == e.type = "complete"

\* a chat() call whose sendMessage has ended, by return, error event, round
\* overflow or throw, has emitted complete; a chat() call that has emitted
\* complete emitted it once and last; a blank message gave an error event and
\* complete and never reached sendMessage
C37_CompleteOnceAndLast ==
    \A i \in Invocations :
        LET evs == ChatEvents(i)
        IN  /\ chat[i].pc = "delegating" =>
                  /\ inv[i].pc \notin {"idle", "done", "thrown"}
                  /\ SelectSeq(evs, IsCompleteEvent) = <<>>
            /\ chat[i].pc = "done" =>
                  /\ evs # <<>>
                  /\ Last(evs) = CompleteEvent
                  /\ Len(SelectSeq(evs, IsCompleteEvent)) = 1
                  /\ IF Trim(chat[i].message) = ""
                     THEN /\ evs = <<ErrorEvent("Cannot send empty message"), CompleteEvent>>
                          /\ inv[i] = IdleInvocation
                     ELSE inv[i].pc \in {"done", "thrown"}

\* nothing is emitted after complete, and the call with a blank message changes
\* neither the history nor any invocation
C37_NothingAfterComplete ==
    \A i \in Invocations :
        /\ chat[i].pc = "done" => ChatEvents(i)' = ChatEvents(i)
        /\ (chat[i].pc = "idle" /\ chat'[i].pc = "done") =>
              /\ conversationHistory' = conversationHistory
              /\ inv' = inv
              /\ served' = served

\* C37: every chat() call emits exactly one complete event, as its last event,
\* on every path: normal end, error event, round overflow, exception thrown by
\* sendMessage; a call with an empty or whitespace-only message emits an error
\* event and complete, makes no model call and leaves the history unchanged.
C37_ChatCompletion == []C37_CompleteOnceAndLast /\ [][C37_NothingAfterComplete]_vars

\* C37 happens: sendMessage threw out of a chat() call after a text_delta, and
\* complete was emitted as the last event
C37_Witness ==
    \E i \in Invocations :
        /\ chat[i].pc = "done"
        /\ inv[i].pc = "thrown"
        /\ inv[i].events # <<>>
        /\ Last(ChatEvents(i)) = CompleteEvent

\* the signal of invocation i fired while it was executing tool calls
FiredInToolLoop(i) ==
    inv[i].aborted /\ inv[i].abortAt.pc \in {"toolStart", "toolExec", "toolResult"}

\* the tool call tc has its tool_start and tool_result events among evs
Announced(tc, evs) ==
    /\ \E k \in DOMAIN evs : evs[k].type = "tool_start" /\ evs[k].toolUseId = tc.id
    /\ \E k \in DOMAIN evs : evs[k].type = "tool_result" /\ evs[k].toolUseId = tc.id

\* the tool call tc has its tool_start and tool_result events among evs and its
\* tool message in the history h
Executed(tc, evs, h) ==
    /\ Announced(tc, evs)
    /\ \E k \in DOMAIN h : h[k].role = "tool" /\ h[k].tool_call_id = tc.id

\* the tool loop takes no notice of the signal: each call is dispatched after
\* its tool_start, its tool message is pushed after its tool_result, and when
\* the loop is left every call of the round has its tool_start and tool_result
C38_ToolLoopRunsOn ==
    \A i \in Invocations :
        (FiredInToolLoop(i) /\ inv'[i] # inv[i]) =>
            LET me == inv[i]
            IN  /\ me.pc = "toolStart" =>
                      inv'[i].pc = "toolExec" /\ inv'[i].pos = me.pos
                /\ me.pc = "toolExec" =>
                      inv'[i].pc = "toolResult" /\ inv'[i].pos = me.pos
                /\ me.pc = "toolResult" =>
                      conversationHistory' =
                          Append(conversationHistory,
                                 ToolMessage(me.toolCalls[me.pos].id, me.pending))
                /\ (me.pc = "toolResult" /\ me.pos < Len(me.toolCalls)) =>
                      /\ inv'[i].pc = "toolStart"
                      /\ inv'[i].pos = me.pos + 1
                      /\ inv'[i].toolCalls = me.toolCalls
                /\ (me.pc = "toolResult" /\ inv'[i].pc \notin {"toolStart", "toolExec",
                                                               "toolResult"}) =>
                      /\ me.calls # <<>>
                      /\ \A k \in DOMAIN me.calls :
                            Announced(me.calls[k], inv'[i].events)

\* the next request is refused: it brings no response, no event and no message
C38_NextCallPrevented ==
    \A i \in Invocations :
        (inv[i].aborted /\ inv[i].pc = "fetch" /\ inv'[i] # inv[i]) =>
            /\ inv'[i].pc = "thrown"
            /\ inv'[i].thrown = "AbortError"
            /\ inv'[i].events = inv[i].events
            /\ conversationHistory' = conversationHistory
            /\ served' = served

\* C38: only the transports consult the signal: when it fires while the tool
\* calls of a round are executed, every remaining tool call of the round is
\* still dispatched and gets its tool_start, tool_result and tool message, and
\* only the next model call is prevented.
C38_SignalOnlyInTransports == [][C38_ToolLoopRunsOn /\ C38_NextCallPrevented]_vars

\* C38 happens: the signal fired while the first of two tool calls was running,
\* both calls were executed, and the next request was refused
C38_Witness ==
    \E i \in Invocations :
        /\ inv[i].aborted
        /\ inv[i].abortAt = [pc |-> "toolExec", pos |-> 1]
        /\ Len(inv[i].toolCalls) = 2
        /\ inv[i].pc = "thrown"
        /\ inv[i].thrown = "AbortError"
        /\ \A k \in DOMAIN inv[i].toolCalls :
              Executed(inv[i].toolCalls[k], inv[i].events, conversationHistory)

\* C39: no received SSE event is lost at the end of the stream: when the
\* transport returns its aggregate, every data payload that was delivered has
\* been parsed, so none is left waiting for a blank line in eventDataLines
\* and none is left waiting for its newline in the buffer.
C39_NoEventLostAtEnd ==
    stream.status = "returned" =>
        /\ stream.eventDataLines = <<>>
        /\ ~(stream.buffer.kind = "data" /\ stream.buffer.payload.t = "json")

====
